---- MODULE Spec2Model ----
(***************************************************************************)
(* A model of the reactive rendering core of sitewinder.py: Signal,        *)
(* DependencyCollector, Component (render / mount / destroy, event and     *)
(* value bindings, coalesced re-rendering through the browser timer queue) *)
(* and the hash Router.  The browser build (HAS_JS = True) is modelled:    *)
(* Component.mount() and Router.start() raise at once in any other build.  *)
(***************************************************************************)
EXTENDS Integers, Sequences, FiniteSets, TLC

VARIABLES
    _value,            \* Signal._value, per signal
    _subs,             \* Signal._subs, per signal: a set of callbacks
    cls,               \* class of each Component instance, "none" = not constructed
    _host_js,          \* Component._host_js
    _root_js,          \* Component._root_js: FALSE = None, TRUE = the root <div>
    _mounted,          \* Component._mounted
    _destroyed,        \* Component._destroyed
    _pending_render,   \* Component._pending_render
    _event_bindings,   \* Component._event_bindings
    _value_bindings,   \* Component._value_bindings
    _signal_unsubs,    \* Component._signal_unsubs
    _style_el,         \* Component._style_el and where that <style> node is
    gen,               \* per component: number of renders = generation of its live nodes
    rootInHost,        \* DOM: the component's root <div> is a child of its host
    content,           \* DOM: what the last render put under the root
    nodeProp,          \* DOM: the property of the bound <input> of the current generation
    listeners,         \* DOM: the addEventListener registrations not yet removed
    timers,            \* browser: callbacks queued by window.setTimeout(fn, 0)
    _current,          \* Router._current (0 = None)
    _hash_proxy,       \* Router._hash_proxy is set
    hashListeners,     \* DOM: number of "hashchange" listeners of the router on window
    location_hash,     \* window.location.hash, as a sequence of characters
    routes,            \* Router.routes: the registered route keys
    not_found_factory, \* Router.not_found_factory: the class it constructs, or "None"
    _current_collector_stack,  \* the global stack of DependencyCollector.signals sets
    _portal_children,  \* Component._portal_children: the classes registered by portal()
    slots,             \* DOM: per component, what each portal placeholder of its tree holds
    held,              \* the unsubscribe functions code outside the framework holds
    head,              \* per component: the <style> elements it has put into document.head
                       \* and the render whose CSS is the textContent of _style_el
    notified,          \* per component: calls of its _on_sig_change since its callback last ran
    clicks,            \* clicks on the Counter's button since other code last changed A
    css_text,          \* the argument css_text of the last _scope_css call, as its lines
    scoped_css,        \* what that call returned, as its lines
    log,               \* what the last operation did, in order
    lastOp             \* the last operation and what it was applied to

vars == << _value, _subs, cls, _host_js, _root_js, _mounted, _destroyed,
           _pending_render, _event_bindings, _value_bindings, _signal_unsubs,
           _style_el, gen, rootInHost, content, nodeProp, listeners, timers,
           _current, _hash_proxy, hashListeners, location_hash, routes,
           not_found_factory, _current_collector_stack, _portal_children, slots,
           held, head, notified, clicks, css_text, scoped_css, log, lastOp >>

---------------------------------------------------------------------------
(* Bounds *)

MaxVal == 2          \* signal values are the integers 0..MaxVal (and their strings)
MaxRenders == 3      \* renders per component instance
MaxInst == 3         \* component instances (Component._instance_id)
MaxBatch == 2        \* signal changes notified to one component between two of its renders
MaxListeners == 2    \* "hashchange" listeners a router has on window at one time

Sigs == {"A", "B"}
Comps == 1 .. MaxInst
PyInt(n) == [t |-> "int", n |-> n]
PyStr(n) == [t |-> "str", n |-> n]
Ints == {PyInt(n) : n \in 0 .. MaxVal}
Strs == {PyStr(n) : n \in 0 .. MaxVal}
Typed == {PyStr(1)}                  \* the text the user types into an <input>
Hosts == {"#app"}                     \* selectors that resolve to a live element
Outlet == "#outlet"                   \* the router's outlet
NoHost == "none"
NoProp == [t |-> "none", n |-> 0]     \* there is no bound <input> node

\* Python's str(v) as the DOM applies it when a value is written to el.value
DomString(v) == PyStr(v.n)

---------------------------------------------------------------------------
(* Callbacks held in Signal._subs *)

OnSigChange(c, g) == [kind |-> "_on_sig_change", comp |-> c, gen |-> g, elem |-> "-"]
UpdateDom(c, g, e) == [kind |-> "_update_dom", comp |-> c, gen |-> g, elem |-> e]
NoCb == [kind |-> "-", comp |-> 0, gen |-> 0, elem |-> "-"]
\* callbacks that code outside the framework passes to subscribe()
Probes == {"p1", "p2"}
Probe(p) == [kind |-> "probe", comp |-> 0, gen |-> 0, elem |-> p]
ProbeRaises(p) == p = "p2"            \* this callback raises an Exception whenever called
\* a callback of code outside the framework that calls set(0) on the signal that
\* notified it
Resetter == [kind |-> "resetter", comp |-> 0, gen |-> 0, elem |-> "p3"]

(* What Router._on_hash_change has in its local variable factory *)
Route(key) == [kind |-> "route", key |-> key]           \* self.routes[key]
NotFound == [kind |-> "not_found", key |-> << >>]       \* self.not_found_factory
NoFactory == [kind |-> "None", key |-> << >>]           \* None

(* Entries of the log *)
Ev(e, c) ==
    [ev |-> e, comp |-> c, cb |-> NoCb, sig |-> "-", old |-> PyInt(0), new |-> PyInt(0),
     cur |-> PyInt(0), live |-> {}, factory |-> NoFactory]
CallEv(cb, s, old, new) == [Ev("call", cb.comp) EXCEPT !.cb = cb, !.sig = s, !.old = old, !.new = new]
SigEv(e, c, s) == [Ev(e, c) EXCEPT !.sig = s]

Perms(S) == {f \in [1 .. Cardinality(S) -> S] : \A i, j \in 1 .. Cardinality(S) : f[i] = f[j] => i = j}

---------------------------------------------------------------------------
(* The program state as one record, so that the methods compose *)

S == [ _value |-> _value, _subs |-> _subs, cls |-> cls, _host_js |-> _host_js,
       _root_js |-> _root_js, _mounted |-> _mounted, _destroyed |-> _destroyed,
       _pending_render |-> _pending_render, _event_bindings |-> _event_bindings,
       _value_bindings |-> _value_bindings, _signal_unsubs |-> _signal_unsubs,
       _style_el |-> _style_el, gen |-> gen, rootInHost |-> rootInHost,
       content |-> content, nodeProp |-> nodeProp, listeners |-> listeners,
       timers |-> timers, _current |-> _current, _hash_proxy |-> _hash_proxy,
       hashListeners |-> hashListeners, location_hash |-> location_hash,
       routes |-> routes, not_found_factory |-> not_found_factory,
       _current_collector_stack |-> _current_collector_stack,
       _portal_children |-> _portal_children, slots |-> slots, held |-> held,
       head |-> head,
       notified |-> notified, clicks |-> clicks,
       node |-> {}, dep |-> {}, log |-> << >>, raised |-> FALSE ]

AddLog(st, e) == [st EXCEPT !.log = Append(@, e)]

---------------------------------------------------------------------------
(* Component._schedule_rerender and _schedule_microtask (HAS_JS branch):   *)
(* the closure run() is queued with window.setTimeout(..., 0).             *)

_schedule_microtask(st, c) == AddLog([st EXCEPT !.timers = Append(@, c)], Ev("setTimeout", c))

\* variant: the pending-render flag is not consulted
_schedule_rerender_no_flag(st, c) ==
    IF st._destroyed[c]
    THEN st
    ELSE _schedule_microtask([st EXCEPT !._pending_render[c] = TRUE], c)

_schedule_rerender(st, c) ==
    IF st._pending_render[c] \/ st._destroyed[c]
    THEN st
    ELSE _schedule_microtask([st EXCEPT !._pending_render[c] = TRUE], c)

---------------------------------------------------------------------------
(* Signal *)

\* list(self._subs) as a set() made inside a callback or a hook sees it
SomeOrder(subs) == CHOOSE order \in Perms(subs) : TRUE

RECURSIVE Signal_set(_, _, _, _)

\* one call cb(old, v) made by Signal.set; cur is the signal's value at the call
Invoke(st, cb, s, old, v) ==
    LET st1 == AddLog(st, [CallEv(cb, s, old, v) EXCEPT !.cur = st._value[s]]) IN
    CASE cb.kind = "_on_sig_change" ->
            _schedule_rerender([st1 EXCEPT !.notified[cb.comp] = @ + 1], cb.comp)
      [] cb.kind = "_update_dom" ->
            \* setattr(_el, prop, _new) on the node captured by the closure
            IF cb.gen = st1.gen[cb.comp] /\ st1.nodeProp[cb.comp] # NoProp
            THEN [st1 EXCEPT !.nodeProp[cb.comp] = DomString(v)]
            ELSE st1
      [] cb.kind = "probe" ->
            IF ProbeRaises(cb.elem) THEN [st1 EXCEPT !.raised = TRUE] ELSE st1
      [] cb.kind = "resetter" ->
            Signal_set(st1, s, PyInt(0), SomeOrder(st1._subs[s]))
      [] OTHER -> st1

\* "except Exception as e: _console.error(...)": the exception ends here
Caught(st, what) ==
    IF st.raised THEN AddLog([st EXCEPT !.raised = FALSE], Ev(what, 0)) ELSE st

\* variant: the call is made outside any try
TryCall_bare(st, cb, s, old, v) == Invoke(st, cb, s, old, v)

\* "try: cb(old, v) except Exception" in the loop of Signal.set
TryCall(st, cb, s, old, v) == Caught(Invoke(st, cb, s, old, v), "console.error")

\* "for cb in list(self._subs)": an exception that escapes the body ends the loop
RECURSIVE Notify(_, _, _, _, _)
Notify(st, order, s, old, v) ==
    IF order = << >> \/ st.raised THEN st
    ELSE Notify(TryCall(st, Head(order), s, old, v), Tail(order), s, old, v)

\* variant: no equality check before storing and notifying
Signal_set_ungated(st, s, v, order) ==
    Notify([st EXCEPT !._value[s] = v], order, s, st._value[s], v)

\* Signal.set(v); order is list(self._subs), an arbitrary order of the set
Signal_set(st, s, v, order) ==
    LET old == st._value[s] IN
    IF old = v
    THEN st
    ELSE Notify([st EXCEPT !._value[s] = v], order, s, old, v)

\* variant: subscribing a callback that is registered removes it
Signal_subscribe_toggle(st, s, cb) ==
    [st EXCEPT !._subs[s] = IF cb \in @ THEN @ \ {cb} ELSE @ \cup {cb}]

\* Signal.subscribe(cb): self._subs.add(cb)
Signal_subscribe(st, s, cb) == [st EXCEPT !._subs[s] = @ \cup {cb}]

\* variant: every registration of the signal is dropped
Signal_unsub_all(st, s, cb) == [st EXCEPT !._subs[s] = {}]

\* the _unsub closure subscribe() returns: self._subs.discard(cb)
Signal_unsub(st, s, cb) == [st EXCEPT !._subs[s] = @ \ {cb}]

---------------------------------------------------------------------------
(* The component classes: what template(), styles() and the handlers of    *)
(* each class do.  Counter shows a count and increments it on click; Pair  *)
(* shows A and, when A is not 0, B in an <input> two-way bound to B.       *)
(* Tally shows A and B, and its on_mount and on_update copy A into B.       *)
(* Shell shows a button, an <input> bound to B and, in a portal, a Counter, *)
(* which shows A.                                                           *)
(* Sparse registers a click handler on a button and binds an <input> to A, *)
(* leaves both out of the tree it returns, and returns a second button and *)
(* an <input> bound to B.                                                   *)
(* The other classes show A and fail somewhere: Fragile's template() raises *)
(* when A is not 0, Hooky's lifecycle hooks raise, Broken's on_init raises, *)
(* BadStyle's and Gaudy's styles() raise, and Parent places two children    *)
(* with portal(); Leaf, BadStyle and Broken show a fixed text.              *)

Classes == {"Counter", "Pair"}
FailingClasses == {"Fragile", "Hooky", "Parent"}

\* the signals whose value template() puts into the text of its tree: its own
\* calls of Signal.get
Shows(k, val) ==
    IF k \in {"Leaf", "BadStyle", "Broken", "Shell", "Sparse"} THEN {}
    ELSE IF k = "Tally" THEN {"A", "B"}
    ELSE {"A"}

\* template() raises an Exception after its reads
TemplateRaises(k, val) == k = "Fragile" /\ val["A"] # PyInt(0)

\* the hook raises an Exception
HookRaises(k, hook) == k = "Hooky"

\* the hook keeps B equal to A: it does B.set(A.get())
HookSets(k, hook) == k = "Tally" /\ hook \in {"on_mount", "on_update"}

\* on_init raises an Exception, so the constructor does
InitRaises(k) == k = "Broken"

\* styles() raises an Exception
StylesRaise(k) == k \in {"BadStyle", "Gaudy"}

\* self.portal(cls) calls made by template(), in order
Portals(k, val) ==
    IF k = "Shell" THEN << "Counter" >>
    ELSE IF k # "Parent" THEN << >>
    ELSE IF val["A"] = PyInt(0) THEN << "Broken", "Leaf" >>
    ELSE IF val["A"] = PyInt(1) THEN << "BadStyle", "Leaf" >>
    ELSE << "Leaf", "Broken" >>

\* the node Fragment(f"SiteWinder template error: {e}")
ErrorNode == {<< "error", PyInt(0) >>}

\* the placeholder <div data-sw-portal="swp-..."> of portal i of render g of component c
SlotName(c, g, i) == "swp-" \o ToString(c) \o "-" \o ToString(g) \o "-" \o ToString(i)
\* what a placeholder holds: nothing, the root of a mounted child, or the text
\* "[SiteWinder] failed to mount child: ..."
SlotStates == {"empty", "child", "error"}

\* self.on(element, event, handler) calls made by template()
EventDecls(k, val) ==
    IF k \in {"Counter", "Shell"}
    THEN << [elem |-> "btn", event |-> "click", handler |-> "inc", attached_to |-> 0] >>
    ELSE IF k = "Sparse"
    THEN << [elem |-> "ghost", event |-> "click", handler |-> "inc", attached_to |-> 0],
            [elem |-> "btn", event |-> "click", handler |-> "inc", attached_to |-> 0] >>
    ELSE << >>

\* self.bind_value(element, signal, event=, prop=) calls made by template()
ValueDecls(k, val) ==
    IF k = "Pair" /\ val["A"] # PyInt(0)
    THEN << [elem |-> "inp", signal |-> "B", prop |-> "value", event |-> "input", attached_to |-> 0] >>
    ELSE IF k = "Shell"
    THEN << [elem |-> "inp", signal |-> "B", prop |-> "value", event |-> "input", attached_to |-> 0] >>
    ELSE IF k = "Sparse"
    THEN << [elem |-> "ghostinp", signal |-> "A", prop |-> "value", event |-> "input", attached_to |-> 0],
            [elem |-> "inp", signal |-> "B", prop |-> "value", event |-> "input", attached_to |-> 0] >>
    ELSE << >>

\* the signals template() reads (Signal.get under the collector): its own calls
\* and the one bind_value makes for each <input>
Reads(k, val) ==
    Shows(k, val) \cup {ValueDecls(k, val)[i].signal : i \in 1 .. Len(ValueDecls(k, val))}

\* the element was given a binding in template() and is not in the tree it returned:
\* querySelector('[data-sw-id="..."]') under the root finds nothing
Omitted(k, elem) == k = "Sparse" /\ elem \in {"ghost", "ghostinp"}

\* styles() returns non-empty CSS
HasStyles(k) == k = "Counter"

\* the node tree template() returns: the text it shows for each signal it read
TemplateOut(k, val) == {<< s, val[s] >> : s \in Reads(k, val)}

---------------------------------------------------------------------------
(* DependencyCollector and Signal.get *)

\* the event of a push or a pop, with the position of the collector in the stack
StackEv(e, depth) == [Ev(e, 0) EXCEPT !.new = PyInt(depth)]

DependencyCollector_enter(st) ==
    AddLog([st EXCEPT !._current_collector_stack = Append(@, {})],
           StackEv("__enter__", Len(st._current_collector_stack) + 1))

\* __exit__ pops the collector; dep.signals stays with the caller
DependencyCollector_exit(st) ==
    AddLog([st EXCEPT !._current_collector_stack = SubSeq(@, 1, Len(@) - 1),
                      !.dep = st._current_collector_stack[Len(st._current_collector_stack)]],
           StackEv("__exit__", Len(st._current_collector_stack)))

\* variant: the read is not recorded
_register_signal_read_dropped(st, s) == st

_register_signal_read(st, s) ==
    IF st._current_collector_stack # << >>
    THEN [st EXCEPT !._current_collector_stack[Len(st._current_collector_stack)] = @ \cup {s}]
    ELSE st

\* Signal.get() of every signal of the set rs (the value returned is st._value[s])
RECURSIVE Signal_get_all(_, _)
Signal_get_all(st, rs) ==
    IF rs = {} THEN st
    ELSE LET s == CHOOSE x \in rs : TRUE IN
         Signal_get_all(_register_signal_read(st, s), rs \ {s})

---------------------------------------------------------------------------
(* Component: bindings *)

EventListener(c, eb) ==
    [comp |-> c, gen |-> eb.attached_to, elem |-> eb.elem, event |-> eb.event, handler |-> eb.handler]
ValueListener(c, vb) ==
    [comp |-> c, gen |-> vb.attached_to, elem |-> vb.elem, event |-> vb.event, handler |-> "_handler"]

Detached(bs) == [i \in 1 .. Len(bs) |-> [bs[i] EXCEPT !.attached_to = 0]]

\* a loop that called removeEventListener for the listeners gone
Removed(st, c, gone) ==
    IF gone = {} THEN st
    ELSE AddLog([st EXCEPT !.listeners = @ \ gone], Ev("removeEventListener", c))

\* the loop "for eb in self._event_bindings: removeEventListener ..."
DetachEvents(st, c) ==
    LET ebs == st._event_bindings[c]
        gone == {EventListener(c, ebs[i]) : i \in {j \in 1 .. Len(ebs) : ebs[j].attached_to # 0}}
    IN [Removed(st, c, gone) EXCEPT !._event_bindings[c] = Detached(ebs)]

\* the loop "for vb in self._value_bindings: removeEventListener ..."
DetachValues(st, c) ==
    LET vbs == st._value_bindings[c]
        gone == {ValueListener(c, vbs[i]) : i \in {j \in 1 .. Len(vbs) : vbs[j].attached_to # 0}}
    IN [Removed(st, c, gone) EXCEPT !._value_bindings[c] = Detached(vbs)]

\* variant: the listeners are left in place
_cleanup_bindings_kept(st, c) == st

\* Component._cleanup_bindings
_cleanup_bindings(st, c) == DetachValues(DetachEvents(st, c), c)

\* Component._unsubscribe_signals, and the same loop at the head of _render_and_mount
RECURSIVE CallUnsubs(_, _)
CallUnsubs(st, us) ==
    IF us = {} THEN st
    ELSE LET u == CHOOSE x \in us : TRUE IN
         CallUnsubs(AddLog(Signal_unsub(st, u.sig, u.cb),
                           [SigEv("unsubscribe", u.cb.comp, u.sig) EXCEPT !.cb = u.cb]),
                    us \ {u})

\* variant: the list is cleared without calling what it holds
_unsubscribe_signals_forgotten(st, c) == [st EXCEPT !._signal_unsubs[c] = {}]

_unsubscribe_signals(st, c) ==
    [CallUnsubs(st, st._signal_unsubs[c]) EXCEPT !._signal_unsubs[c] = {}]

\* sig.subscribe(cb) with the returned _unsub appended to self._signal_unsubs
SubscribeKeep(st, c, s, cb) ==
    [AddLog(Signal_subscribe(st, s, cb), SigEv("subscribe", c, s))
        EXCEPT !._signal_unsubs[c] = @ \cup {[sig |-> s, cb |-> cb]}]

RECURSIVE SubscribeDeps(_, _, _)
SubscribeDeps(st, c, ds) ==
    IF ds = {} THEN st
    ELSE LET s == CHOOSE x \in ds : TRUE IN
         SubscribeDeps(SubscribeKeep(st, c, s, OnSigChange(c, st.gen[c])), c, ds \ {s})

\* el.addEventListener(eb.event, proxy); eb.attached_to = el
AddEventListener(st, c, i) ==
    LET eb == [st._event_bindings[c][i] EXCEPT !.attached_to = st.gen[c]] IN
    AddLog([st EXCEPT !.listeners = @ \cup {EventListener(c, eb)},
                      !._event_bindings[c][i] = eb],
           Ev("addEventListener", c))

\* variant: no _is_dom_node test, so None.addEventListener raises
AttachEvent_unguarded(st, c, i) ==
    IF Omitted(st.cls[c], st._event_bindings[c][i].elem)
    THEN [st EXCEPT !.raised = TRUE]
    ELSE AddEventListener(st, c, i)

\* the body of the attach loop: "if not _is_dom_node(el): continue"
AttachEvent(st, c, i) ==
    IF Omitted(st.cls[c], st._event_bindings[c][i].elem)
    THEN st
    ELSE AddEventListener(st, c, i)

\* Component._apply_event_bindings
RECURSIVE AttachEvents(_, _, _)
AttachEvents(st, c, i) ==
    IF i > Len(st._event_bindings[c]) \/ st.raised THEN st
    ELSE AttachEvents(AttachEvent(st, c, i), c, i + 1)

_apply_event_bindings(st, c) == AttachEvents(DetachEvents(st, c), c, 1)

\* Component._apply_value_bindings
RECURSIVE AttachValues(_, _, _)
AttachValues(st, c, i) ==
    IF i > Len(st._value_bindings[c]) \/ st.raised THEN st
    ELSE IF Omitted(st.cls[c], st._value_bindings[c][i].elem) THEN AttachValues(st, c, i + 1)
    ELSE LET vb == [st._value_bindings[c][i] EXCEPT !.attached_to = st.gen[c]]
             \* setattr(el, vb.prop, vb.signal.get())
             st1 == [_register_signal_read(st, vb.signal)
                        EXCEPT !.nodeProp[c] = DomString(st._value[vb.signal])]
             \* el.addEventListener(vb.event, proxy)
             st2 == AddLog([st1 EXCEPT !.listeners = @ \cup {ValueListener(c, vb)},
                                       !._value_bindings[c][i] = vb],
                           Ev("addEventListener", c))
             \* unsub = vb.signal.subscribe(_update_dom)
             st3 == SubscribeKeep(st2, c, vb.signal, UpdateDom(c, st.gen[c], vb.elem))
         IN AttachValues(st3, c, i + 1)

\* variant: the old listeners are detached and nothing is attached
_apply_value_bindings_detached(st, c) == DetachValues(st, c)

_apply_value_bindings(st, c) == AttachValues(DetachValues(st, c), c, 1)

\* "self._style_el.textContent = css_text"
SetStyleText(st, c) == [st EXCEPT !.head[c].text = st.gen[c]]

\* createElement("style") and _document.head.appendChild(self._style_el)
AppendStyle(st, c) == [st EXCEPT !._style_el[c] = "in_head", !.head[c].n = @ + 1]

\* Component._mount_styles_if_any
_mount_styles_if_any(st, c) ==
    IF StylesRaise(st.cls[c]) THEN [st EXCEPT !.raised = TRUE]
    ELSE IF ~HasStyles(st.cls[c]) THEN st
    ELSE IF st._style_el[c] = "None"
         THEN SetStyleText(AppendStyle(st, c), c)
         ELSE SetStyleText(st, c)

---------------------------------------------------------------------------
(* Component._render_and_mount *)

\* an Exception is raised when b holds
RaiseIf(st, b) == IF b THEN [st EXCEPT !.raised = TRUE] ELSE st

\* variant: the binding is recorded and the signal is not read
bind_value_unread(st, c, vd) == [st EXCEPT !._value_bindings[c] = Append(@, vd)]

\* Component.bind_value: the binding is recorded and the element's attribute is
\* set to str(signal.get())
bind_value(st, c, vd) ==
    [_register_signal_read(st, vd.signal) EXCEPT !._value_bindings[c] = Append(@, vd)]

\* the bind_value calls of template(), in order
RECURSIVE BindValues(_, _, _)
BindValues(st, c, vds) ==
    IF vds = << >> THEN st
    ELSE BindValues(bind_value(st, c, Head(vds)), c, Tail(vds))

\* the body of template(): it raises, or registers its bindings and portals and
\* returns its node tree
TemplateBody(st, c) ==
    IF TemplateRaises(st.cls[c], st._value)
    THEN [st EXCEPT !.raised = TRUE]
    ELSE [BindValues(st, c, ValueDecls(st.cls[c], st._value))
             EXCEPT !._event_bindings[c] = @ \o EventDecls(st.cls[c], st._value),
                    !._portal_children[c] = @ \o Portals(st.cls[c], st._value),
                    !.node = TemplateOut(st.cls[c], st._value)]

\* self.template() under "with DependencyCollector() as dep"; node is what it returns
EvalTemplate(st, c) ==
    TemplateBody(
        Signal_get_all(
            AddLog(DependencyCollector_enter([st EXCEPT !.gen[c] = @ + 1]), Ev("template", c)),
            Shows(st.cls[c], st._value)),
        c)

\* "except Exception as e: node = Fragment(f"SiteWinder template error: {e}")"
Fallback(st) ==
    IF st.raised THEN [Caught(st, "console.error") EXCEPT !.node = ErrorNode] ELSE st

\* variant: template() is called outside any try
TryTemplate_bare(st, c) == EvalTemplate(st, c)

\* "try: node = self.template() except Exception as e: ..."
TryTemplate(st, c) == Fallback(EvalTemplate(st, c))


\* what the hook does before it returns or raises
HookBody(st, c, hook) ==
    IF HookSets(st.cls[c], hook)
    THEN Signal_set(st, "B", st._value["A"], SomeOrder(st._subs["B"]))
    ELSE st

\* one lifecycle hook is called
CallHook(st, c, hook) ==
    RaiseIf(HookBody(AddLog(st, Ev(hook, c)), c, hook), HookRaises(st.cls[c], hook))

\* variant: the hook is called outside any try
TryHook_bare(st, c, hook) == CallHook(st, c, hook)

\* "try: self.on_mount() except Exception as e: _console.error(...)", and the same
\* for on_update and on_destroy
TryHook(st, c, hook) == Caught(CallHook(st, c, hook), "console.error")

FreeIds(st) == {c \in Comps : st.cls[c] = "none"}
LiveSet(st) == {c \in Comps : st.cls[c] # "none" /\ st._mounted[c] /\ ~st._destroyed[c]}
\* next(_comp_instance_iter)
NextId(st) == CHOOSE x \in FreeIds(st) : \A d \in FreeIds(st) : x <= d

\* Component.__init__ of the next instance; on_init is its last statement, and an
\* instance whose on_init raises is never seen by the caller
Component_init(st, c, k) ==
    IF InitRaises(k)
    THEN [st EXCEPT !.raised = TRUE]
    ELSE AddLog(AddLog([st EXCEPT !.cls[c] = k],
                       [Ev("__init__", c) EXCEPT !.live = LiveSet(st)]),
                Ev("on_init", c))

RECURSIVE mount(_, _, _)

\* the child is in its slot once child.mount(slot) has returned
Placed(st, c, i) == IF st.raised THEN st ELSE [st EXCEPT !.slots[c][i] = "child"]

\* "child.mount(slot)" for the instance id that cls(**props) returned
MountNew(st, id, c, i) ==
    IF st.raised THEN st
    ELSE Placed(mount(st, id, SlotName(c, st.gen[c], i)), c, i)

\* "child = cls(**props); child.mount(slot)" for portal i of component c
MountChild(st, c, i) ==
    MountNew(Component_init(st, NextId(st), st._portal_children[c][i]), NextId(st), c, i)

\* "except Exception as e": the slot's textContent becomes the error text, which
\* removes whatever the child had put into the slot
CatchChild(st, c, i) ==
    IF st.raised
    THEN [Caught(st, "console.error")
            EXCEPT !.slots[c][i] = "error",
                   !.rootInHost = [d \in Comps |->
                                      IF st._host_js[d] = SlotName(c, st.gen[c], i)
                                      THEN FALSE ELSE @[d]]]
    ELSE st

\* variant: the child is constructed and mounted outside any try
TryMountChild_bare(st, c, i) == MountChild(st, c, i)

\* the try/except of _mount_portal_children
TryMountChild(st, c, i) == CatchChild(MountChild(st, c, i), c, i)

\* "for portal_id, cls, props in self._portal_children": every slot is in the tree
RECURSIVE MountChildren(_, _, _)
MountChildren(st, c, i) ==
    IF i > Len(st._portal_children[c]) \/ st.raised THEN st
    ELSE MountChildren(TryMountChild(st, c, i), c, i + 1)

\* Component._mount_portal_children
_mount_portal_children(st, c) == MountChildren(st, c, 1)

(* The statements of _render_and_mount in order; an Exception that nothing *)
(* catches leaves the procedure at the statement that raised.              *)

\* variant: the per-render lists are reset without detaching what they hold
ResetRender_lists_only(st, c) ==
    [st EXCEPT !._event_bindings[c] = << >>,
               !._value_bindings[c] = << >>,
               !._portal_children[c] = << >>,
               !._signal_unsubs[c] = {}]

\* clean up old bindings/listeners, reset the per-render lists, clear the signal
\* subscriptions of the previous render
ResetRender(st, c) ==
    _unsubscribe_signals(
        [_cleanup_bindings(st, c) EXCEPT !._event_bindings[c] = << >>,
                                        !._value_bindings[c] = << >>,
                                        !._portal_children[c] = << >>],
        c)

\* variant: the collector is pushed and popped by hand around the try, and the
\* pop is skipped on the path through the except clause
CollectTemplate_unwound(st, c) ==
    IF EvalTemplate(st, c).raised THEN TryTemplate(st, c) ELSE DependencyCollector_exit(TryTemplate(st, c))

\* "with DependencyCollector() as dep: try: node = self.template() ..."
CollectTemplate(st, c) == DependencyCollector_exit(TryTemplate(st, c))

\* variant: nothing is subscribed when template() raised
SubscribeCollected_unless_failed(st, c) ==
    IF st.raised \/ st.node = ErrorNode THEN st ELSE SubscribeDeps(st, c, st.dep)

\* "for sig in dep.signals: self._signal_unsubs.append(sig.subscribe(_on_sig_change))"
SubscribeCollected(st, c) == IF st.raised THEN st ELSE SubscribeDeps(st, c, st.dep)

\* first mount: clear the host and create the container
CreateRoot(st, c, first_mount) ==
    IF st.raised \/ ~first_mount THEN st
    ELSE [st EXCEPT !.rootInHost =
                       [d \in Comps |->
                           IF d = c THEN TRUE
                           ELSE IF st._host_js[d] = st._host_js[c] THEN FALSE
                           ELSE @[d]],
                    !._root_js[c] = TRUE]

\* (re)mount styles
MountStyles(st, c) == IF st.raised THEN st ELSE _mount_styles_if_any(st, c)

\* the value bindings of c whose element is in the tree template() returned
InTree(st, c) ==
    LET Kept(vb) == ~Omitted(st.cls[c], vb.elem) IN SelectSeq(st._value_bindings[c], Kept)

\* wipe the container and append the new tree: its text, its placeholders and
\* the <input> into which bind_value wrote value=str(signal.get())
AppendTree(st, c) ==
    IF st.raised \/ ~st._root_js[c] THEN st
    ELSE [AddLog(st, Ev("to_dom", c))
             EXCEPT !.content[c] = st.node,
                    !.slots[c] = [i \in 1 .. Len(st._portal_children[c]) |-> "empty"],
                    !.nodeProp[c] =
                        IF InTree(st, c) # << >>
                        THEN DomString(st._value[InTree(st, c)[1].signal])
                        ELSE NoProp]

\* variant: the children are mounted before the bindings are attached
BindAndMountChildren_children_first(st, c) ==
    IF st.raised THEN st
    ELSE _apply_value_bindings(_apply_event_bindings(_mount_portal_children(st, c), c), c)

\* attach event listeners, apply value bindings, mount child components at portals
BindAndMountChildren(st, c) ==
    IF st.raised THEN st
    ELSE _mount_portal_children(_apply_value_bindings(_apply_event_bindings(st, c), c), c)

\* variant: the hook is chosen without recording that the component is mounted
Lifecycle_unrecorded(st, c) ==
    IF st.raised THEN st
    ELSE AddLog(IF ~st._mounted[c]
                THEN TryHook(st, c, "on_mount")
                ELSE TryHook(st, c, "on_update"),
                Ev("rendered", c))

\* lifecycle callback; _render_and_mount returns after it
Lifecycle(st, c) ==
    IF st.raised THEN st
    ELSE AddLog(IF ~st._mounted[c]
                THEN TryHook([st EXCEPT !._mounted[c] = TRUE], c, "on_mount")
                ELSE TryHook(st, c, "on_update"),
                Ev("rendered", c))

_render_and_mount(st, c, first_mount) ==
    IF st._host_js[c] = NoHost
    THEN [st EXCEPT !.raised = TRUE]
    ELSE Lifecycle(
           BindAndMountChildren(
             AppendTree(
               MountStyles(
                 CreateRoot(
                   SubscribeCollected(CollectTemplate(ResetRender(st, c), c), c),
                   c, first_mount),
                 c),
               c),
             c),
           c)

---------------------------------------------------------------------------
(* Component.mount and Component.destroy *)

SlotNames == {SlotName(c, g, i) : c \in Comps, g \in 1 .. MaxRenders, i \in 1 .. 2}
Resolvable(h) == h \in Hosts \cup {Outlet} \cup SlotNames

\* variant: the host is recorded without being resolved
mount_any_host(st, c, h) ==
    _render_and_mount([st EXCEPT !._host_js[c] = h], c, TRUE)

\* Component.mount
mount(st, c, h) ==
    IF ~Resolvable(h)
    THEN [st EXCEPT !.raised = TRUE]
    ELSE _render_and_mount([st EXCEPT !._host_js[c] = h], c, TRUE)

\* variant: no early return for a destroyed instance
destroy_unguarded(st, c) ==
    LET s1 == _unsubscribe_signals(_cleanup_bindings(st, c), c)
        s2 == IF s1._root_js[c] /\ s1._host_js[c] # NoHost
              THEN [s1 EXCEPT !.rootInHost[c] = FALSE]
              ELSE s1
        s3 == IF s2._style_el[c] = "in_head"
              THEN [s2 EXCEPT !._style_el[c] = "removed", !.head[c].n = @ - 1]
              ELSE s2
    IN TryHook([s3 EXCEPT !._destroyed[c] = TRUE], c, "on_destroy")

destroy(st, c) ==
    IF st._destroyed[c]
    THEN st
    ELSE LET s1 == _unsubscribe_signals(_cleanup_bindings(st, c), c)
             s2 == IF s1._root_js[c] /\ s1._host_js[c] # NoHost
                   THEN [s1 EXCEPT !.rootInHost[c] = FALSE]
                   ELSE s1
             s3 == IF s2._style_el[c] = "in_head"
                   THEN [s2 EXCEPT !._style_el[c] = "removed", !.head[c].n = @ - 1]
                   ELSE s2
         IN TryHook([s3 EXCEPT !._destroyed[c] = TRUE], c, "on_destroy")

\* variant: the flag is cleared but nothing is rendered
run_without_render(st, c) == [st EXCEPT !._pending_render[c] = FALSE, !.notified[c] = 0]

\* the closure run() of _schedule_rerender, called by the browser
run(st, c) ==
    _render_and_mount([st EXCEPT !._pending_render[c] = FALSE, !.notified[c] = 0], c, FALSE)

---------------------------------------------------------------------------
(* Initial states *)

Op(o, c, s, a, st) ==
    [op |-> o, comp |-> c, sig |-> s, arg |-> a,
     destroyed |-> IF c \in Comps THEN st._destroyed[c] ELSE FALSE,
     batch |-> IF c \in Comps THEN st.notified[c] ELSE 0,
     was |-> FALSE, host |-> NoHost, raised |-> FALSE]

InitCommon ==
    /\ _value = [s \in Sigs |-> PyInt(0)]
    /\ _subs = [s \in Sigs |-> {}]
    /\ _host_js = [c \in Comps |-> NoHost]
    /\ _root_js = [c \in Comps |-> FALSE]
    /\ _mounted = [c \in Comps |-> FALSE]
    /\ _destroyed = [c \in Comps |-> FALSE]
    /\ _pending_render = [c \in Comps |-> FALSE]
    /\ _event_bindings = [c \in Comps |-> << >>]
    /\ _value_bindings = [c \in Comps |-> << >>]
    /\ _signal_unsubs = [c \in Comps |-> {}]
    /\ _style_el = [c \in Comps |-> "None"]
    /\ gen = [c \in Comps |-> 0]
    /\ rootInHost = [c \in Comps |-> FALSE]
    /\ content = [c \in Comps |-> {}]
    /\ nodeProp = [c \in Comps |-> NoProp]
    /\ listeners = {}
    /\ timers = << >>
    /\ _current = 0
    /\ _hash_proxy = FALSE
    /\ hashListeners = 0
    /\ location_hash = << >>
    /\ _current_collector_stack = << >>
    /\ _portal_children = [c \in Comps |-> << >>]
    /\ slots = [c \in Comps |-> << >>]
    /\ held = {}
    /\ head = [c \in Comps |-> [n |-> 0, text |-> 0]]
    /\ notified = [c \in Comps |-> 0]
    /\ clicks = 0
    /\ scoped_css = << >>
    /\ log = << >>
    /\ lastOp = [op |-> "init", comp |-> 0, sig |-> "-", arg |-> PyInt(0),
                 destroyed |-> FALSE, batch |-> 0, was |-> FALSE, host |-> NoHost,
                 raised |-> FALSE]

\* one component has been constructed (instance id 1), a Counter or a Pair
Init ==
    /\ InitCommon
    /\ css_text = << >>
    /\ \E k \in Classes : cls = [c \in Comps |-> IF c = 1 THEN k ELSE "none"]
    /\ routes = {}
    /\ not_found_factory = "None"

Apply(st, op) ==
    /\ _value' = st._value
    /\ _subs' = st._subs
    /\ cls' = st.cls
    /\ _host_js' = st._host_js
    /\ _root_js' = st._root_js
    /\ _mounted' = st._mounted
    /\ _destroyed' = st._destroyed
    /\ _pending_render' = st._pending_render
    /\ _event_bindings' = st._event_bindings
    /\ _value_bindings' = st._value_bindings
    /\ _signal_unsubs' = st._signal_unsubs
    /\ _style_el' = st._style_el
    /\ gen' = st.gen
    /\ rootInHost' = st.rootInHost
    /\ content' = st.content
    /\ nodeProp' = st.nodeProp
    /\ listeners' = st.listeners
    /\ timers' = st.timers
    /\ _current' = st._current
    /\ _hash_proxy' = st._hash_proxy
    /\ hashListeners' = st.hashListeners
    /\ location_hash' = st.location_hash
    /\ routes' = st.routes
    /\ not_found_factory' = st.not_found_factory
    /\ _current_collector_stack' = st._current_collector_stack
    /\ _portal_children' = st._portal_children
    /\ slots' = st.slots
    /\ held' = st.held
    /\ head' = st.head
    /\ notified' = st.notified
    /\ clicks' = st.clicks
    /\ UNCHANGED << css_text, scoped_css >>
    /\ log' = st.log
    /\ lastOp' = [op EXCEPT !.raised = st.raised]

---------------------------------------------------------------------------
(* Operations *)

\* the instances a render of c constructs and keeps: one per portal whose class constructs
Needs(c) ==
    LET ps == Portals(cls[c], _value) IN
    Cardinality({i \in 1 .. Len(ps) : ~InitRaises(ps[i])})
EnoughIds(c) == Cardinality(FreeIds(S)) >= Needs(c)

\* code outside the framework calls component.mount(host)
Mount(c, h) ==
    /\ cls[c] # "none"
    /\ gen[c] < MaxRenders
    /\ EnoughIds(c)
    /\ Apply(mount(S, c, h), [Op("mount", c, "-", PyInt(0), S) EXCEPT !.host = h])

\* code outside the framework calls component.destroy()
Destroy(c) ==
    /\ cls[c] # "none"
    /\ Apply(destroy(S, c), Op("destroy", c, "-", PyInt(0), S))

\* code outside the framework calls signal.set(v)
CanNotify == \A c \in Comps : notified[c] < MaxBatch

Set(s, v) ==
    /\ CanNotify
    /\ \E order \in Perms(_subs[s]) :
        Apply(Signal_set([S EXCEPT !.clicks = IF s = "A" /\ v # _value["A"] THEN 0 ELSE @],
                         s, v, order),
              Op("set", 0, s, v, S))

\* the browser runs the oldest setTimeout callback
RunTimer ==
    /\ timers # << >>
    /\ gen[Head(timers)] < MaxRenders
    /\ EnoughIds(Head(timers))
    /\ Apply(run([S EXCEPT !.timers = Tail(@)], Head(timers)),
             Op("run", Head(timers), "-", PyInt(0), S))

\* the user clicks the Counter's button: the handler does count.set(count() + 1)
Click(c) ==
    /\ \E l \in listeners : l.comp = c /\ l.gen = gen[c] /\ l.handler = "inc"
    /\ _value["A"].n < MaxVal
    /\ CanNotify
    /\ \E order \in Perms(_subs["A"]) :
           Apply(Signal_set([S EXCEPT !.clicks = @ + 1], "A", PyInt(_value["A"].n + 1), order),
                 Op("click", c, "A", PyInt(_value["A"].n + 1), S))

\* the user types w into the Pair's <input>: _handler does signal.set(ev.target.value)
Input(c, w) ==
    /\ \E l \in listeners : l.comp = c /\ l.gen = gen[c] /\ l.handler = "_handler"
    /\ CanNotify
    /\ \E order \in Perms(_subs["B"]) :
           Apply(Signal_set([S EXCEPT !.nodeProp[c] = w], "B", w, order),
                 Op("input", c, "B", w, S))

Next ==
    \/ \E c \in Comps, h \in Hosts \cup {"#missing"} : Mount(c, h)
    \/ \E c \in Comps : Destroy(c)
    \/ \E s \in Sigs, v \in Ints : Set(s, v)
    \/ RunTimer
    \/ \E c \in Comps : Click(c)
    \/ \E c \in Comps, w \in Typed : Input(c, w)

Spec == Init /\ [][Next]_vars

\* the supported use of a component: mount() is not called once destroy() has run
MountLive(c, h) == ~_destroyed[c] /\ Mount(c, h)

NextSupported ==
    \/ \E c \in Comps, h \in Hosts \cup {"#missing"} : MountLive(c, h)
    \/ \E c \in Comps : Destroy(c)
    \/ \E s \in Sigs, v \in Ints : Set(s, v)
    \/ RunTimer
    \/ \E c \in Comps : Click(c)
    \/ \E c \in Comps, w \in Typed : Input(c, w)

SpecSupported == Init /\ [][NextSupported]_vars

TypeOK ==
    /\ _current_collector_stack = << >>
    /\ \A c \in Comps : gen[c] <= MaxRenders

---------------------------------------------------------------------------
(* Vocabulary of the properties *)

Has(lg, e, c) == \E i \in 1 .. Len(lg) : lg[i].ev = e /\ lg[i].comp = c
Times(lg, e, c) == Cardinality({i \in 1 .. Len(lg) : lg[i].ev = e /\ lg[i].comp = c})
NumCalls(lg) == Cardinality({i \in 1 .. Len(lg) : lg[i].ev = "call"})
CallsOf(lg, cb, s, old, v) ==
    Cardinality({i \in 1 .. Len(lg) : /\ lg[i].ev = "call" /\ lg[i].cb = cb /\ lg[i].sig = s
                                      /\ lg[i].old = old /\ lg[i].new = v})
TimersOf(c) == Cardinality({i \in 1 .. Len(timers) : timers[i] = c})
CallbacksOf(c) == UNION {{cb \in _subs[s] : cb.comp = c} : s \in Sigs}
ListenersOf(c) == {l \in listeners : l.comp = c}
Constructed == {c \in Comps : cls[c] # "none"}
Live(c) == cls[c] # "none" /\ _mounted[c] /\ ~_destroyed[c]
\* the signals the last template() evaluation of c read, and the values it saw
Deps(c) == {p[1] : p \in content[c]}
Quiescent(c) == ~_pending_render[c] /\ TimersOf(c) = 0
IsSetOp(o) == o \in {"set", "click", "input"}

---------------------------------------------------------------------------
(* C1: destroy cancels a pending render: when the scheduled callback of a
   component runs after destroy(), it does not call template(), does not
   fire on_update, subscribes to no signal and attaches no listener. *)
C1_DestroyCancelsPendingRender ==
    (lastOp.op = "run" /\ lastOp.destroyed) =>
        LET c == lastOp.comp IN
        /\ ~Has(log, "template", c)
        /\ ~Has(log, "on_update", c)
        /\ ~Has(log, "subscribe", c)
        /\ ~Has(log, "addEventListener", c)

(* C2: coalescing: however many value-changing set() calls notify a live
   component before its scheduled callback runs, exactly one callback is
   queued for it, and when that callback runs it evaluates template() once,
   fires on_update once, shows the final values of the signals it reads and
   leaves no further render scheduled. *)
C2_Coalescing ==
    \A c \in Constructed :
        ~_destroyed[c] =>
            /\ notified[c] >= 1 => (TimersOf(c) = 1 /\ _pending_render[c])
            /\ notified[c] = 0 => TimersOf(c) = 0
            /\ (lastOp.op = "run" /\ lastOp.comp = c) =>
                  /\ Times(log, "template", c) = 1
                  /\ Times(log, "on_update", c) = 1
                  /\ content[c] = TemplateOut(cls[c], _value)
                  /\ Quiescent(c)

C2_Witness ==
    /\ lastOp.op = "run" /\ ~lastOp.destroyed /\ lastOp.batch >= 2
    /\ Deps(lastOp.comp) = {"A", "B"}
    /\ Times(log, "template", lastOp.comp) = 1

(* C3: equality gating: set(v) with v equal to the current value calls no
   subscriber and leaves the value unchanged; set(v) with a different v
   stores v and calls every subscriber registered at the call exactly once
   with (old, v), and nothing else. *)
C3_EqualityGating ==
    [][ lastOp'.op = "set" =>
          LET s == lastOp'.sig
              v == lastOp'.arg
              old == _value[s]
          IN IF old = v
             THEN _value' = _value /\ NumCalls(log') = 0
             ELSE /\ _value' = [_value EXCEPT ![s] = v]
                  /\ \A cb \in _subs[s] : CallsOf(log', cb, s, old, v) = 1
                  /\ NumCalls(log') = Cardinality(_subs[s]) ]_vars

C3_Witness ==
    /\ lastOp.op = "set" /\ lastOp.sig = "B" /\ NumCalls(log) = 2
    /\ \E i, j \in 1 .. Len(log) : log[i].cb.kind = "_on_sig_change" /\ log[j].cb.kind = "_update_dom"

(* C4: dependency tracking: for a live component whose last render read
   exactly the signals D, a value-changing set() on a signal of D leaves one
   re-render of the component scheduled, and a value-changing set() on a
   signal outside D changes nothing about its scheduling. *)
C4_DependencyTracking ==
    [][ (IsSetOp(lastOp'.op) /\ _value'[lastOp'.sig] # _value[lastOp'.sig]) =>
          \A c \in Constructed :
              (_mounted[c] /\ ~_destroyed[c]) =>
                  IF lastOp'.sig \in Deps(c)
                  THEN _pending_render'[c]
                       /\ Cardinality({i \in 1 .. Len(timers') : timers'[i] = c}) = 1
                  ELSE _pending_render'[c] = _pending_render[c] /\ timers' = timers ]_vars

C4_Witness ==
    /\ lastOp.op = "set" /\ lastOp.sig = "B" /\ Live(1)
    /\ Deps(1) = {"A", "B"} /\ _pending_render[1] /\ notified[1] = 1
    /\ timers = << 1 >>

(* C5: eventual consistency: for a live component with no render scheduled,
   the rendered subtree is template() evaluated on the current values of the
   signals it reads; each click on the Counter increments the count and
   leaves a re-render scheduled, so that after k clicks and their re-renders
   the output shows the count increased by k. *)
C5_RenderedOutputCurrent ==
    /\ [](\A c \in Constructed :
             (Live(c) /\ Quiescent(c)) => content[c] = TemplateOut(cls[c], _value))
    /\ [][ (lastOp'.op = "click" /\ ~_destroyed[lastOp'.comp]) =>
              /\ _value'["A"] = PyInt(_value["A"].n + 1)
              /\ clicks' = clicks + 1
              /\ _pending_render'[lastOp'.comp] ]_vars

C5_Witness ==
    /\ clicks = MaxVal /\ Live(1) /\ Quiescent(1) /\ lastOp.op = "run"
    /\ content[1] = {<< "A", PyInt(MaxVal) >>}
    /\ Cardinality(ListenersOf(1)) = 1

\* the values the last template() evaluation of c saw
RenderedVal(c) ==
    [s \in Sigs |-> IF s \in Deps(c)
                    THEN (CHOOSE p \in content[c] : p[1] = s)[2]
                    ELSE PyInt(0)]

(* C6: no listener accumulation: for a live component, after any number of
   renders, the DOM listeners of the component are exactly one per binding
   the latest template() declared, each on a node of the latest render; no
   listener of an earlier render is still attached. *)
C6_NoListenerAccumulation ==
    \A c \in Constructed :
        Live(c) =>
            LET eds == EventDecls(cls[c], RenderedVal(c))
                vds == ValueDecls(cls[c], RenderedVal(c))
            IN ListenersOf(c) =
                 {EventListener(c, [eds[i] EXCEPT !.attached_to = gen[c]]) : i \in 1 .. Len(eds)}
                 \cup {ValueListener(c, [vds[i] EXCEPT !.attached_to = gen[c]]) : i \in 1 .. Len(vds)}

C6_Witness ==
    \E c \in Constructed :
        /\ Live(c) /\ gen[c] = MaxRenders /\ lastOp.op = "run"
        /\ Cardinality(ListenersOf(c)) = 1

(* C7: destroy() releases everything: in every state in which a component
   is destroyed it has no DOM listener, none of its callbacks is subscribed
   to a signal, its root is not a child of its host and its style element
   is not in the document. *)
C7_DestroyReleasesEverything ==
    \A c \in Constructed :
        _destroyed[c] =>
            /\ ListenersOf(c) = {}
            /\ CallbacksOf(c) = {}
            /\ ~rootInHost[c]
            /\ _style_el[c] # "in_head"

(* C8: no transition out of Destroyed: mount(host) on a destroyed instance
   does not call template(), attaches no root under the host, subscribes to
   no signal and fires neither on_mount nor on_update. *)
C8_NoMountAfterDestroy ==
    (lastOp.op = "mount" /\ lastOp.destroyed) =>
        LET c == lastOp.comp IN
        /\ ~Has(log, "template", c)
        /\ ~rootInHost[c]
        /\ ~Has(log, "subscribe", c)
        /\ ~Has(log, "on_mount", c)
        /\ ~Has(log, "on_update", c)

progVars == << _value, _subs, cls, _host_js, _root_js, _mounted, _destroyed,
               _pending_render, _event_bindings, _value_bindings, _signal_unsubs,
               _style_el, gen, rootInHost, content, nodeProp, listeners, timers,
               _current, _hash_proxy, hashListeners, location_hash, routes,
               not_found_factory, _current_collector_stack, _portal_children,
               slots, held, head >>

(* C9: destroy() is idempotent: a call on an already destroyed instance
   changes no state and does not invoke on_destroy; on_destroy is invoked
   only by the call that takes the instance from not destroyed to
   destroyed, and a destroyed instance stays destroyed, so on_destroy fires
   at most once per instance. *)
C9_DestroyIdempotent ==
    [][ \A c \in Comps :
          /\ (lastOp'.op = "destroy" /\ lastOp'.comp = c /\ _destroyed[c]) =>
                (UNCHANGED progVars /\ log' = << >>)
          /\ Has(log', "on_destroy", c) => (~_destroyed[c] /\ _destroyed'[c])
          /\ _destroyed[c] => _destroyed'[c] ]_vars

C9_Witness ==
    /\ lastOp.op = "destroy" /\ lastOp.destroyed /\ log = << >>
    /\ gen[lastOp.comp] >= 1 /\ _destroyed[lastOp.comp]

---------------------------------------------------------------------------
(* Router *)

RootKey == << "#", "/" >>                  \* "#/"
PairKey == << "#", "/", "p" >>             \* "#/p"
Hashes == { << >>, PairKey, PairKey \o << "/" >>, << "#", "/", "x" >> }
RouteMaps == { {RootKey, PairKey}, {PairKey} }

\* the class the factory registered under a key constructs
FactoryOf(key) == IF key = PairKey THEN "Pair" ELSE "Counter"

\* h = str(_window.location.hash or "#/")
HashKey(hash) == IF hash = << >> THEN RootKey ELSE hash
\* h[:-1]
Most(h) == SubSeq(h, 1, Len(h) - 1)

\* variant: the retry without the trailing "/" comes before the not-found factory
Resolve_retry_first(rts, nf, h) ==
    LET f1 == IF h \in rts THEN Route(h) ELSE NoFactory
        f2 == IF f1 = NoFactory /\ h[Len(h)] = "/" /\ Most(h) \in rts
              THEN Route(Most(h)) ELSE f1
        f3 == IF f2 = NoFactory /\ nf # "None" THEN NotFound ELSE f2
    IN IF f3 = NoFactory /\ RootKey \in rts THEN Route(RootKey) ELSE f3

\* the value of factory after the four lookups at the head of _on_hash_change
Resolve(rts, nf, h) ==
    LET f1 == IF h \in rts THEN Route(h) ELSE NoFactory
        f2 == IF f1 = NoFactory /\ nf # "None" THEN NotFound ELSE f1
        f3 == IF f2 = NoFactory /\ h[Len(h)] = "/" /\ Most(h) \in rts
              THEN Route(Most(h)) ELSE f2
    IN IF f3 = NoFactory /\ RootKey \in rts THEN Route(RootKey) ELSE f3

\* the class of the component that calling factory() constructs
ClassOf(st, f) == IF f = NotFound THEN st.not_found_factory ELSE FactoryOf(f.key)

\* the head of _on_hash_change: factory is resolved for the current hash
ResolveFactory(st) == Resolve(st.routes, st.not_found_factory, HashKey(st.location_hash))
Resolved(st) == AddLog(st, [Ev("resolve", 0) EXCEPT !.factory = ResolveFactory(st)])

\* variant: the current component stays when nothing resolves
NothingToShow_stay(st) == st

\* the branch "if factory is None" of _on_hash_change: nothing to show
NothingToShow(st) ==
    IF st._current # 0
    THEN [destroy(st, st._current) EXCEPT !._current = 0]
    ELSE st

\* "if self._current: self._current.destroy(); self._current = None" before the
\* factory is called
DropCurrent(st) ==
    IF st._current # 0
    THEN [destroy(st, st._current) EXCEPT !._current = 0]
    ELSE st

\* "comp = factory(); comp.mount(self.outlet); self._current = comp" for a factory
\* that constructs a k
\* an exception ends _on_hash_change at the statement that raised
MountRouted(st, id) == IF st.raised THEN st ELSE mount(st, id, Outlet)
SetCurrent(st, id) == IF st.raised THEN st ELSE [st EXCEPT !._current = id]
ShowRoute(st, k) ==
    SetCurrent(MountRouted(Component_init(st, NextId(st), k), NextId(st)), NextId(st))

\* variant: the current component is not destroyed before the next one is mounted
_on_hash_change_keep(st) ==
    IF ResolveFactory(st) = NoFactory
    THEN NothingToShow(Resolved(st))
    ELSE ShowRoute(Resolved(st), ClassOf(st, ResolveFactory(st)))

\* Router._on_hash_change
_on_hash_change(st) ==
    IF ResolveFactory(st) = NoFactory
    THEN NothingToShow(Resolved(st))
    ELSE ShowRoute(DropCurrent(Resolved(st)), ClassOf(st, ResolveFactory(st)))

\* the browser calls every "hashchange" listener of the router; an exception that
\* leaves a listener is reported and the next listener is called
RECURSIVE Dispatch(_, _)
Dispatch(st, n) ==
    IF n = 0 THEN st ELSE Dispatch(Caught(_on_hash_change(st), "uncaught"), n - 1)

\* Router.start
Router_start(st) ==
    _on_hash_change([st EXCEPT !._hash_proxy = TRUE, !.hashListeners = @ + 1])

\* Router.stop
Router_stop(st) ==
    IF st._hash_proxy
    THEN [st EXCEPT !.hashListeners = @ - 1, !._hash_proxy = FALSE]
    ELSE st

\* a Router("#outlet", routes, not_found=...) has been constructed; no component yet
InitRouter ==
    /\ InitCommon
    /\ css_text = << >>
    /\ cls = [c \in Comps |-> "none"]
    /\ routes \in RouteMaps
    /\ not_found_factory = "None"

Start ==
    /\ hashListeners < MaxListeners
    /\ FreeIds(S) # {}
    /\ Apply(Router_start(S), Op("start", 0, "-", PyInt(0), S))

Stop ==
    /\ hashListeners <= MaxListeners
    /\ Apply(Router_stop(S), Op("stop", 0, "-", PyInt(0), S))

\* the user navigates: the hash changes and the browser fires "hashchange"
Navigate(h) ==
    /\ Cardinality(FreeIds(S)) >= hashListeners
    /\ Apply(Dispatch([S EXCEPT !.location_hash = h], hashListeners),
             Op("hashchange", 0, "-", PyInt(0), S))

NextRouter ==
    \/ Start
    \/ Stop
    \/ \E h \in Hashes : Navigate(h)
    \/ RunTimer
    \/ \E c \in Comps : Click(c)

SpecRouter == InitRouter /\ [][NextRouter]_vars

(* C10: router exclusivity: at most one routed component is mounted and not
   destroyed; whenever a factory constructs a component no routed component
   is live, and within one operation the on_destroy of an older component
   comes before the construction of a newer one. *)
C10_RouterExclusivity ==
    /\ Cardinality({c \in Constructed : _mounted[c] /\ ~_destroyed[c]}) <= 1
    /\ \A j \in 1 .. Len(log) :
          log[j].ev = "__init__" =>
              /\ log[j].live = {}
              /\ \A i \in 1 .. Len(log) :
                    (log[i].ev = "on_destroy" /\ log[i].comp < log[j].comp) => i < j

C10_Witness ==
    /\ lastOp.op = "hashchange"
    /\ \E i, j \in 1 .. Len(log) :
          /\ i < j /\ log[i].ev = "on_destroy" /\ log[j].ev = "__init__"
          /\ _current = log[j].comp /\ Live(_current) /\ _destroyed[log[i].comp]

---------------------------------------------------------------------------
(* Route resolution over every route map and not-found factory *)

SlashKey == PairKey \o << "/" >>           \* "#/p/"
HashOnly == << "#" >>                      \* "#"
AllRouteMaps == SUBSET {RootKey, PairKey, SlashKey, HashOnly}
NotFoundFactories == {"None", "Counter"}

InitResolve ==
    /\ InitCommon
    /\ css_text = << >>
    /\ cls = [c \in Comps |-> "none"]
    /\ routes \in AllRouteMaps
    /\ not_found_factory \in NotFoundFactories

NextResolve ==
    \/ Start
    \/ \E h \in Hashes : Navigate(h)

SpecResolve == InitResolve /\ [][NextResolve]_vars

ResolveEvents == {i \in 1 .. Len(log) : log[i].ev = "resolve"}

(* C11: route resolution order: the factory a navigation selects for the key
   h is routes[h] if h is registered; otherwise the not-found factory if
   there is one; otherwise routes[h without its trailing "/"] if h ends with
   "/" and that key is registered; otherwise the root route "#/" if
   registered; otherwise none.  With a not-found factory, an unregistered
   key never reaches the retry or the root fallback. *)
C11_RouteResolutionOrder ==
    LET h == HashKey(location_hash)
        expected ==
            IF h \in routes THEN Route(h)
            ELSE IF not_found_factory # "None" THEN NotFound
            ELSE IF h[Len(h)] = "/" /\ Most(h) \in routes THEN Route(Most(h))
            ELSE IF RootKey \in routes THEN Route(RootKey)
            ELSE NoFactory
    IN \A i \in ResolveEvents :
          /\ log[i].factory = expected
          /\ (not_found_factory # "None" /\ h \notin routes) => log[i].factory = NotFound

C11_Witness ==
    /\ lastOp.op = "hashchange"
    /\ location_hash = SlashKey /\ SlashKey \notin routes /\ RootKey \in routes
    /\ \E i \in ResolveEvents : log[i].factory = Route(PairKey)
    /\ _current # 0 /\ cls[_current] = "Pair" /\ Live(_current)

(* C12: a navigation that resolves to no factory destroys the routed
   component that was current (if any), leaves the router with no current
   component and constructs no component. *)
C12_NothingResolves ==
    [][ (/\ lastOp'.op \in {"start", "hashchange"}
         /\ \E i \in 1 .. Len(log') : log'[i].ev = "resolve" /\ log'[i].factory = NoFactory)
        => /\ _current' = 0
           /\ _current # 0 => (_destroyed'[_current] /\ ~rootInHost'[_current])
           /\ cls' = cls
           /\ \A i \in 1 .. Len(log') : log'[i].ev # "__init__" ]_vars

C12_Witness ==
    /\ lastOp.op = "hashchange"
    /\ \E i \in ResolveEvents : log[i].factory = NoFactory
    /\ \E c \in Constructed : Has(log, "on_destroy", c) /\ _destroyed[c]
    /\ _current = 0

(* C13: Router.stop(): once the last of the start() and stop() calls made
   so far is a stop(), a navigation event resolves no route and the router
   destroys and constructs nothing; and stop() itself leaves the current
   component as it is, mounted and not destroyed. *)
C13_StopEndsRouting ==
    [][ /\ (~_hash_proxy /\ lastOp'.op = "hashchange") =>
               /\ \A i \in 1 .. Len(log') : log'[i].ev \notin {"resolve", "__init__", "on_destroy"}
               /\ cls' = cls /\ _destroyed' = _destroyed /\ _current' = _current
        /\ lastOp'.op = "stop" =>
               /\ _current' = _current /\ _mounted' = _mounted /\ _destroyed' = _destroyed
               /\ rootInHost' = rootInHost /\ log' = << >> ]_vars

---------------------------------------------------------------------------
(* Signals with subscribers from outside the framework *)

Handle(s, p) == [sig |-> s, cb |-> Probe(p)]

\* self._theme_unsub = self.theme.subscribe(apply_theme): the unsubscribe function is kept
Subscribe(s, p) ==
    /\ s \in Sigs
    /\ Apply(AddLog([Signal_subscribe(S, s, Probe(p)) EXCEPT !.held = @ \cup {Handle(s, p)}],
                    [SigEv("subscribe", 0, s) EXCEPT !.cb = Probe(p)]),
             [Op("subscribe", 0, s, PyInt(0), S) EXCEPT !.was = Probe(p) \in _subs[s]])

\* self._theme_unsub(): a held unsubscribe function is called
Unsubscribe(u) ==
    /\ u \in held
    /\ Apply(AddLog(Signal_unsub(S, u.sig, u.cb),
                    [SigEv("unsubscribe", 0, u.sig) EXCEPT !.cb = u.cb]),
             [Op("unsubscribe", 0, u.sig, PyInt(0), S) EXCEPT !.was = u.cb \in _subs[u.sig]])

\* a Counter has been constructed; no signal has a subscriber
InitSignal ==
    /\ InitCommon
    /\ css_text = << >>
    /\ cls = [c \in Comps |-> IF c = 1 THEN "Counter" ELSE "none"]
    /\ routes = {}
    /\ not_found_factory = "None"

\* the values A is set to where only the change matters
Flips == {PyInt(0), PyInt(1)}

\* the first mount of a component
MountFirst(c, h) == ~_mounted[c] /\ Mount(c, h)

\* the signal code outside the framework subscribes to
Watched == {"A"}

NextSignal ==
    \/ \E c \in Comps, h \in Hosts : MountFirst(c, h)
    \/ \E v \in Ints : Set("A", v)
    \/ RunTimer
    \/ \E s \in Watched, p \in Probes : Subscribe(s, p)
    \/ \E s \in Watched, p \in Probes : Unsubscribe(Handle(s, p))

SpecSignal == InitSignal /\ [][NextSignal]_vars

CallsTo(lg, cb) == Cardinality({i \in 1 .. Len(lg) : lg[i].ev = "call" /\ lg[i].cb = cb})

(* C14: subscriber failure isolation: when set(v) changes the value, every
   subscriber registered at the time of the call is invoked exactly once
   with (old, v), whether or not another subscriber raises; the new value
   stays stored and set() returns normally. *)
C14_SubscriberIsolation ==
    [][ \A s \in Sigs :
          (lastOp'.op = "set" /\ lastOp'.sig = s /\ lastOp'.arg # _value[s]) =>
              /\ \A cb \in _subs[s] :
                    /\ CallsOf(log', cb, s, _value[s], lastOp'.arg) = 1
                    /\ CallsTo(log', cb) = 1
              /\ _value'[s] = lastOp'.arg
              /\ ~lastOp'.raised ]_vars

C14_Witness ==
    /\ lastOp.op = "set" /\ ~lastOp.raised
    /\ Len(log) >= 4
    /\ log[1].ev = "call" /\ log[1].cb = Probe("p2") /\ log[2].ev = "console.error"
    /\ CallsTo(log, Probe("p1")) = 1
    /\ \E i \in 1 .. Len(log) : log[i].ev = "call" /\ log[i].cb.kind = "_on_sig_change"
    /\ _value[lastOp.sig] = lastOp.arg

(* C15: the unsubscribe function returned by subscribe(cb) removes exactly
   the registration of cb: every other subscriber of the signal and every
   subscriber of other signals stays registered, calling it when cb is not
   registered changes nothing, and set() invokes only callbacks that are
   registered when it is called. *)
C15_UnsubscribeExact ==
    [][ /\ \A u \in held :
              (lastOp'.op = "unsubscribe" /\ lastOp'.sig = u.sig /\ log'[1].cb = u.cb) =>
                  /\ _subs' = [_subs EXCEPT ![u.sig] = @ \ {u.cb}]
                  /\ u.cb \notin _subs[u.sig] => UNCHANGED progVars
                  /\ _value' = _value /\ held' = held /\ timers' = timers
        /\ IsSetOp(lastOp'.op) =>
              \A i \in 1 .. Len(log') :
                  log'[i].ev = "call" => log'[i].cb \in _subs[log'[i].sig] ]_vars

C15_Witness ==
    /\ lastOp.op = "unsubscribe" /\ lastOp.was
    /\ log[1].cb = Probe("p1") /\ Probe("p1") \notin _subs[lastOp.sig]
    /\ Probe("p2") \in _subs[lastOp.sig]
    /\ \E cb \in _subs[lastOp.sig] : cb.kind = "_on_sig_change"

(* C16: duplicate subscription is suppressed and re-subscription works:
   subscribe(cb) leaves cb registered, once, whether cb was registered
   before, was never registered or was unsubscribed, and a registered
   callback is invoked once per value change. *)
C16_DuplicateAndResubscribe ==
    [][ /\ \A s \in Sigs, p \in Probes :
              (lastOp'.op = "subscribe" /\ lastOp'.sig = s /\ log'[1].cb = Probe(p)) =>
                  /\ _subs' = [_subs EXCEPT ![s] = @ \cup {Probe(p)}]
                  /\ Probe(p) \in _subs[s] => _subs' = _subs
        /\ \A s \in Sigs, p \in Probes :
              (lastOp'.op = "set" /\ lastOp'.sig = s /\ lastOp'.arg # _value[s]) =>
                  CallsTo(log', Probe(p)) = (IF Probe(p) \in _subs[s] THEN 1 ELSE 0) ]_vars

C16_Witness ==
    /\ lastOp.op = "subscribe" /\ lastOp.was
    /\ log[1].cb = Probe("p1") /\ Probe("p1") \in _subs[lastOp.sig]
    /\ Cardinality({cb \in _subs[lastOp.sig] : cb.kind = "probe"}) = 1

---------------------------------------------------------------------------
(* Components whose template, hooks or children fail *)

\* one component has been constructed: a Fragile, a Hooky or a Parent
InitErrors ==
    /\ InitCommon
    /\ css_text = << >>
    /\ \E k \in FailingClasses : cls = [c \in Comps |-> IF c = 1 THEN k ELSE "none"]
    /\ routes = {}
    /\ not_found_factory = "None"

NextErrors ==
    \/ \E c \in Comps, h \in Hosts : MountFirst(c, h)
    \/ \E c \in Comps : Destroy(c)
    \/ \E v \in Ints : Set("A", v)
    \/ RunTimer

SpecErrors == InitErrors /\ [][NextErrors]_vars

IsRenderOp(o) == o \in {"mount", "run"}
\* the hook a render of c fires, given the state the render starts in
HookOf(c) == IF _mounted[c] THEN "on_update" ELSE "on_mount"
OtherHookOf(c) == IF _mounted[c] THEN "on_mount" ELSE "on_update"

(* C17: template error containment: when template() raises during a first
   mount or a re-render, mount() or the scheduled callback returns normally,
   the root holds the fallback error node, the rest of the render procedure
   runs (the signals read before the failure are subscribed, the root is in
   the host after a mount) and the hook of that render, on_mount or
   on_update, fires once. *)
C17_TemplateErrorContained ==
    [][ \A c \in Comps :
          (/\ IsRenderOp(lastOp'.op) /\ lastOp'.comp = c
           /\ TemplateRaises(cls[c], _value)) =>
              /\ ~lastOp'.raised
              /\ Times(log', "template", c) = 1
              /\ content'[c] = ErrorNode
              /\ _subs'["A"] = (_subs["A"] \ CallbacksOf(c)) \cup {OnSigChange(c, gen'[c])}
              /\ lastOp'.op = "mount" => (rootInHost'[c] /\ _root_js'[c])
              /\ _mounted'[c]
              /\ Times(log', HookOf(c), c) = 1
              /\ Times(log', OtherHookOf(c), c) = 0 ]_vars

C17_Witness ==
    /\ lastOp.op = "run" /\ ~lastOp.destroyed /\ ~lastOp.raised
    /\ cls[lastOp.comp] = "Fragile" /\ TemplateRaises("Fragile", _value)
    /\ content[lastOp.comp] = ErrorNode
    /\ Has(log, "on_update", lastOp.comp)

\* the instances constructed by the step
Born == {d \in Comps : cls[d] = "none" /\ cls'[d] # "none"}

(* C18: child mount failure containment: when constructing or mounting a
   portal child raises, the parent's mount() or scheduled callback still
   returns normally; every portal of that render whose class does not fail
   gets a newly constructed child mounted in its slot, the failing slot
   holds the error marker, and the parent's on_mount or on_update fires
   once. *)
C18_ChildFailureContained ==
    [][ \A c \in Comps :
          (IsRenderOp(lastOp'.op) /\ lastOp'.comp = c /\ cls[c] = "Parent") =>
              LET ps == Portals("Parent", _value) IN
              /\ ~lastOp'.raised
              /\ Len(slots'[c]) = Len(ps)
              /\ \A i \in 1 .. Len(ps) :
                    IF InitRaises(ps[i]) \/ StylesRaise(ps[i])
                    THEN slots'[c][i] = "error"
                    ELSE /\ slots'[c][i] = "child"
                         /\ \E d \in Born :
                               /\ cls'[d] = ps[i]
                               /\ _host_js'[d] = SlotName(c, gen'[c], i)
                               /\ _mounted'[d] /\ rootInHost'[d]
                               /\ Times(log', "on_mount", d) = 1
              /\ Times(log', HookOf(c), c) = 1 ]_vars

C18_Witness ==
    /\ lastOp.op = "run" /\ ~lastOp.raised
    /\ cls[lastOp.comp] = "Parent"
    /\ slots[lastOp.comp] = << "error", "child" >>
    /\ Has(log, "on_update", lastOp.comp)
    /\ \E d \in Constructed :
          /\ Has(log, "__init__", d) /\ Has(log, "on_mount", d)
          /\ _host_js[d] = SlotName(lastOp.comp, gen[lastOp.comp], 2)

(* C19: lifecycle hook failures are contained: when on_mount, on_update or
   on_destroy raises, mount(), the scheduled callback or destroy() returns
   normally and the operation's state change holds: after a failing on_mount
   the component is mounted and subscribed to its dependencies, after a
   failing on_update the new tree is shown, after a failing on_destroy the
   component is destroyed and released. *)
C19_HookFailureContained ==
    [][ \A c \in Comps :
          (lastOp'.comp = c /\ cls[c] = "Hooky") =>
              /\ lastOp'.op \in {"mount", "run", "destroy"} => ~lastOp'.raised
              /\ IsRenderOp(lastOp'.op) =>
                    /\ Times(log', HookOf(c), c) = 1
                    /\ _mounted'[c]
                    /\ content'[c] = TemplateOut("Hooky", _value)
                    /\ OnSigChange(c, gen'[c]) \in _subs'["A"]
                    /\ lastOp'.op = "mount" => rootInHost'[c]
              /\ (lastOp'.op = "destroy" /\ ~_destroyed[c]) =>
                    /\ Times(log', "on_destroy", c) = 1
                    /\ _destroyed'[c]
                    /\ ~rootInHost'[c]
                    /\ \A s \in Sigs : \A cb \in _subs'[s] : cb.comp # c ]_vars

C19_Witness ==
    /\ lastOp.op = "mount" /\ ~lastOp.raised
    /\ cls[lastOp.comp] = "Hooky"
    /\ Has(log, "on_mount", lastOp.comp)
    /\ \E i \in 1 .. Len(log) : log[i].ev = "console.error"
    /\ _mounted[lastOp.comp] /\ CallbacksOf(lastOp.comp) # {}

(* C20: host resolution failure: mount(host) with a host that does not
   resolve to a live DOM node raises to the caller and changes nothing: no
   host is recorded, template() is not called, no subscription or listener
   is created, no lifecycle hook fires and a component that was not mounted
   stays unmounted. *)
C20_HostResolutionFailure ==
    [][ \A c \in Comps :
          (lastOp'.op = "mount" /\ lastOp'.comp = c /\ ~Resolvable(lastOp'.host)) =>
              /\ lastOp'.raised
              /\ UNCHANGED progVars
              /\ log' = << >> ]_vars

C20_Witness ==
    /\ lastOp.op = "mount" /\ lastOp.host = "#missing" /\ lastOp.raised
    /\ log = << >>
    /\ _host_js[lastOp.comp] = NoHost /\ ~_mounted[lastOp.comp]
    /\ gen[lastOp.comp] = 0 /\ CallbacksOf(lastOp.comp) = {} /\ ListenersOf(lastOp.comp) = {}

---------------------------------------------------------------------------
(* Lifecycle hooks over mounts, re-mounts, re-renders, destroys and children *)

HookClasses == {"Counter", "Hooky", "Parent"}

\* one component has been constructed: a Counter, a Hooky or a Parent
InitHooks ==
    /\ InitCommon
    /\ css_text = << >>
    /\ \E k \in HookClasses : cls = [c \in Comps |-> IF c = 1 THEN k ELSE "none"]
    /\ routes = {}
    /\ not_found_factory = "None"

\* code outside the framework holds the instance it constructed (instance 1); a
\* child is held by nobody ("child" is a local variable of _mount_portal_children)
MountHeld(h) == Mount(1, h)
DestroyHeld == Destroy(1)

NextHooks ==
    \/ \E h \in Hosts : MountHeld(h)
    \/ DestroyHeld
    \/ \E v \in Ints : Set("A", v)
    \/ RunTimer

SpecHooks == InitHooks /\ [][NextHooks]_vars

RenderHooks == {"on_mount", "on_update"}
\* the positions in lg of the event e of component c
At(lg, e, c) == {i \in 1 .. Len(lg) : lg[i].ev = e /\ lg[i].comp = c}
\* a render of c that runs to its end: no statement of it raises past a try
Completes(c) == ~StylesRaise(cls'[c])

(* C21: hook sequencing per instance: on_init fires once, in the
   constructor, before any other hook of the instance; on_mount fires once,
   at the end of the instance's first render; every later render fires
   on_update once and not on_mount; on_update never fires before on_mount
   has. *)
C21_HookSequencing ==
    [][ \A c \in Comps :
          \* on_init: by the constructor, once, first
          /\ At(log', "on_init", c) # {} <=> (cls[c] = "none" /\ cls'[c] # "none")
          /\ Times(log', "on_init", c) <= 1
          /\ \A i \in 1 .. Len(log') :
                (log'[i].comp = c /\ log'[i].ev \in RenderHooks \cup {"on_destroy"}) =>
                    /\ cls'[c] # "none"
                    /\ cls[c] = "none" => \E j \in At(log', "on_init", c) : j < i
          \* on_mount: once, at the end of the first render
          /\ At(log', "on_mount", c) # {} <=> (~_mounted[c] /\ _mounted'[c])
          /\ _mounted[c] => _mounted'[c]
          /\ At(log', "on_mount", c) # {} =>
                /\ Times(log', "on_mount", c) = 1
                /\ gen[c] = 0 /\ gen'[c] = 1
                /\ \A i \in At(log', "template", c) \cup At(log', "addEventListener", c)
                          \cup At(log', "subscribe", c) :
                      \A j \in At(log', "on_mount", c) : i < j
          \* every render: one hook, on_mount for the first and on_update for the later ones
          /\ gen'[c] = gen[c] + Times(log', "template", c)
          /\ (At(log', "template", c) # {} /\ Completes(c)) =>
                /\ Times(log', "template", c) = 1
                /\ Times(log', IF gen[c] = 0 THEN "on_mount" ELSE "on_update", c) = 1
                /\ Times(log', IF gen[c] = 0 THEN "on_update" ELSE "on_mount", c) = 0
                /\ \A i \in At(log', "template", c) :
                      \A j \in At(log', "on_mount", c) \cup At(log', "on_update", c) : i < j
          /\ At(log', "template", c) = {} =>
                (At(log', "on_mount", c) = {} /\ At(log', "on_update", c) = {})
          \* on_update only after on_mount
          /\ At(log', "on_update", c) # {} => _mounted[c] ]_vars

\* a second mount() of a mounted instance fires on_update, and a child was born in it
C21_Witness ==
    /\ lastOp.op = "mount" /\ gen[lastOp.comp] = 2 /\ ~lastOp.destroyed
    /\ Times(log, "on_update", lastOp.comp) = 1 /\ Times(log, "on_mount", lastOp.comp) = 0
    /\ \E d \in Constructed :
          /\ d # lastOp.comp
          /\ At(log, "on_init", d) # {} /\ At(log, "on_mount", d) # {}

---------------------------------------------------------------------------
(* Two-way binding: a Pair, whose <input> is bound to B with                *)
(* bind_value(inp, B, event="input", prop="value")                          *)

\* a Pair has been constructed
InitBinding ==
    /\ InitCommon
    /\ css_text = << >>
    /\ cls = [c \in Comps |-> IF c = 1 THEN "Pair" ELSE "none"]
    /\ routes = {}
    /\ not_found_factory = "None"

NextBinding ==
    \/ \E c \in Comps, h \in Hosts : MountFirst(c, h)
    \/ \E s \in Sigs, v \in Ints : Set(s, v)
    \/ RunTimer
    \/ \E c \in Comps, w \in Typed : Input(c, w)

SpecBinding == InitBinding /\ [][NextBinding]_vars

\* c is mounted and its live tree has the bound <input>
Bound(c) == Live(c) /\ _value_bindings[c] # << >> /\ nodeProp[c] # NoProp

(* C22 as stated: an external set(v) on the bound signal makes the live
   node's property equal to v; the configured event with property value w
   makes the signal equal to w; and after either one, once the scheduled
   render has run, no render is pending and the node's property equals the
   signal's value. *)
C22_RoundTrip ==
    /\ [][ \A c \in Comps :
             /\ (lastOp'.op = "set" /\ lastOp'.sig = "B" /\ Bound(c)) =>
                   nodeProp'[c] = lastOp'.arg
             /\ (lastOp'.op = "input" /\ lastOp'.comp = c) =>
                   _value'["B"] = lastOp'.arg ]_vars
    /\ [](\A c \in Comps : (Bound(c) /\ Quiescent(c)) => nodeProp[c] = _value["B"])

(* C22, amended: an external set(v) on the bound signal makes the live
   node's property the DOM string of v; the configured event with property
   value w makes the signal equal to w; each of the two leaves at most one
   render of the component scheduled, the scheduled render sets no signal
   and schedules nothing, and in every state with no render pending the
   node's property is the DOM string of the signal's value. *)
C22_RoundTripDom ==
    /\ [][ \A c \in Comps :
             /\ (lastOp'.op = "set" /\ lastOp'.sig = "B" /\ Bound(c)) =>
                   /\ nodeProp'[c] = DomString(lastOp'.arg)
                   /\ _value'["B"] = lastOp'.arg
             /\ (lastOp'.op = "input" /\ lastOp'.comp = c) =>
                   /\ _value'["B"] = lastOp'.arg
                   /\ nodeProp'[c] = lastOp'.arg
             /\ (IsSetOp(lastOp'.op) /\ Live(c)) =>
                   Cardinality({i \in 1 .. Len(timers') : timers'[i] = c}) <= 1
             /\ (lastOp'.op = "run" /\ lastOp'.comp = c /\ Live(c)) =>
                   /\ _value' = _value
                   /\ ~_pending_render'[c]
                   /\ \A i \in 1 .. Len(timers') : timers'[i] # c ]_vars
    /\ [](\A c \in Comps :
             (Bound(c) /\ Quiescent(c)) => nodeProp[c] = DomString(_value["B"]))

\* set(2) from outside after the user typed "1", and the re-render has run
C22_Witness ==
    /\ lastOp.op = "run" /\ Bound(lastOp.comp) /\ Quiescent(lastOp.comp)
    /\ _value["B"] = PyInt(2) /\ nodeProp[lastOp.comp] = PyStr(2)
    /\ gen[lastOp.comp] = MaxRenders

---------------------------------------------------------------------------
(* Two components that read the same signal *)

\* two Counters have been constructed; both read A
InitShared ==
    /\ InitCommon
    /\ css_text = << >>
    /\ cls = [c \in Comps |-> IF c <= 2 THEN "Counter" ELSE "none"]
    /\ routes = {}
    /\ not_found_factory = "None"

\* the first is mounted in "#app" and the second in "#outlet"; the first is the
\* one that gets destroyed
NextShared ==
    \/ MountFirst(1, "#app")
    \/ MountFirst(2, Outlet)
    \/ DestroyHeld
    \/ \E v \in Flips : Set("A", v)
    \/ RunTimer

SpecShared == InitShared /\ [][NextShared]_vars

\* the callbacks of component c registered on signal s
SubsOf(c, s) == {cb \in _subs[s] : cb.comp = c}

(* C23: independent subscriptions on a shared signal: destroying or
   re-rendering one component removes its own subscriptions only (a destroy
   leaves it with none, a render with those of the new render only); the
   subscriptions of every other component are unchanged, and a component
   that is live and subscribed to the signal has a re-render scheduled by
   the next value change, whatever happened to the other one. *)
C23_IndependentSubscriptions ==
    [][ \A c, d \in Comps :
          /\ (lastOp'.op \in {"destroy", "run", "mount"} /\ lastOp'.comp = c /\ d # c) =>
                /\ \A s \in Sigs : {cb \in _subs'[s] : cb.comp = d} = SubsOf(d, s)
                /\ _signal_unsubs'[d] = _signal_unsubs[d]
                /\ _pending_render'[d] = _pending_render[d]
          /\ (lastOp'.op = "destroy" /\ lastOp'.comp = c /\ ~_destroyed[c]) =>
                \A s \in Sigs : \A cb \in _subs'[s] : cb.comp # c
          /\ (IsRenderOp(lastOp'.op) /\ lastOp'.comp = c) =>
                \A s \in Sigs : \A cb \in _subs'[s] : cb.comp = c => cb.gen = gen'[c]
          /\ (lastOp'.op = "set" /\ _value' # _value /\ Live(d) /\ SubsOf(d, lastOp'.sig) # {}) =>
                /\ _pending_render'[d]
                /\ Cardinality({i \in 1 .. Len(timers') : timers'[i] = d}) = 1 ]_vars

\* A changes after one of the two was destroyed: the other one is still notified
C23_Witness ==
    /\ lastOp.op = "set" /\ lastOp.sig = "A"
    /\ \E c, d \in Constructed :
          /\ c # d /\ _destroyed[c] /\ gen[c] >= 1 /\ SubsOf(c, "A") = {}
          /\ Live(d) /\ _pending_render[d] /\ timers = << d >>
          /\ \E i \in 1 .. Len(log) : log[i].ev = "call" /\ log[i].cb = OnSigChange(d, gen[d])

---------------------------------------------------------------------------
(* Component._scope_css.  A text is the sequence of its lines               *)
(* (css_text.splitlines() and "\n".join), a line a sequence of characters,  *)
(* and the scope selector '[data-sw-cid="7"]' counts as one character.      *)

MaxLine == 4         \* characters per line of the stylesheet text

Chars == {" ", ",", "{", "@", "x"}
ScopeSelector == << "[data-sw-cid=\"7\"]" >>
LinesUpTo(n) == UNION {[1 .. k -> Chars] : k \in 0 .. n}

\* str.strip() for the one whitespace character of Chars
RECURSIVE LStrip(_)
LStrip(s) == IF s # << >> /\ Head(s) = " " THEN LStrip(Tail(s)) ELSE s
RECURSIVE RStrip(_)
RStrip(s) == IF s # << >> /\ s[Len(s)] = " " THEN RStrip(SubSeq(s, 1, Len(s) - 1)) ELSE s
Strip(s) == RStrip(LStrip(s))

\* s.find(ch) + 1: the position of the first ch in s, 0 when there is none
RECURSIVE Find(_, _, _)
Find(s, ch, i) == IF i > Len(s) THEN 0 ELSE IF s[i] = ch THEN i ELSE Find(s, ch, i + 1)

\* s.split(ch)
RECURSIVE Split(_, _)
Split(s, ch) ==
    IF Find(s, ch, 1) = 0 THEN << s >>
    ELSE << SubSeq(s, 1, Find(s, ch, 1) - 1) >> \o Split(SubSeq(s, Find(s, ch, 1) + 1, Len(s)), ch)

\* ", ".join(f"{scope_selector} {s}" for s in selectors if s), selectors being the
\* stripped pieces
RECURSIVE JoinPrefixed(_, _)
JoinPrefixed(pieces, scope) ==
    IF pieces = << >> THEN << >>
    ELSE IF Strip(Head(pieces)) = << >> THEN JoinPrefixed(Tail(pieces), scope)
    ELSE IF JoinPrefixed(Tail(pieces), scope) = << >>
         THEN scope \o << " " >> \o Strip(Head(pieces))
         ELSE scope \o << " " >> \o Strip(Head(pieces)) \o << ",", " " >>
                \o JoinPrefixed(Tail(pieces), scope)

\* the branch 'if "{" in line': f"{prefixed} {{{after}"
ScopeRule(line, scope) ==
    JoinPrefixed(Split(SubSeq(line, 1, Find(line, "{", 1) - 1), ","), scope)
        \o << " ", "{" >> \o SubSeq(line, Find(line, "{", 1) + 1, Len(line))

\* variant: the line itself is tested, not its stripped text
ScopeLine_unstripped(line, scope) ==
    IF line = << >> \/ Head(line) = "@" THEN line
    ELSE IF Find(line, "{", 1) # 0 THEN ScopeRule(line, scope)
    ELSE line

\* the body of "for line in css_text.splitlines()"
ScopeLine(line, scope) ==
    IF Strip(line) = << >> \/ Head(Strip(line)) = "@" THEN line
    ELSE IF Find(line, "{", 1) # 0 THEN ScopeRule(line, scope)
    ELSE line

_scope_css(text, scope) == [i \in 1 .. Len(text) |-> ScopeLine(text[i], scope)]

\* a stylesheet text of one line, or of two short lines
InitCss ==
    /\ InitCommon
    /\ cls = [c \in Comps |-> "none"]
    /\ routes = {}
    /\ not_found_factory = "None"
    /\ css_text \in {<< l >> : l \in LinesUpTo(MaxLine)}
                    \cup {<< l, m >> : l, m \in LinesUpTo(MaxLine - 2)}

\* self._scope_css(css_text, scope_selector)
ScopeCss ==
    /\ lastOp.op = "init"
    /\ scoped_css' = _scope_css(css_text, ScopeSelector)
    /\ lastOp' = [lastOp EXCEPT !.op = "_scope_css"]
    /\ UNCHANGED << progVars, notified, clicks, css_text, log >>

NextCss == ScopeCss

SpecCss == InitCss /\ [][NextCss]_vars

(* Vocabulary of the property, defined from positions rather than by recursion *)
Brace(line) == {i \in 1 .. Len(line) : line[i] = "{"}
FirstBrace(line) == CHOOSE i \in Brace(line) : \A j \in Brace(line) : i <= j
Inked(s) == {i \in 1 .. Len(s) : s[i] # " "}
Trim(s) ==
    IF Inked(s) = {} THEN << >>
    ELSE SubSeq(s, CHOOSE i \in Inked(s) : \A j \in Inked(s) : i <= j,
                   CHOOSE i \in Inked(s) : \A j \in Inked(s) : i >= j)
\* the selectors of a selector list: the trimmed non-empty texts between its commas
Cuts(s) == {0, Len(s) + 1} \cup {i \in 1 .. Len(s) : s[i] = ","}
Selectors(s) ==
    LET starts == {a \in Cuts(s) : a <= Len(s)
                     /\ Trim(SubSeq(s, a + 1, (CHOOSE b \in Cuts(s) : b > a /\ \A e \in Cuts(s) : e > a => b <= e) - 1)) # << >>}
    IN {<< a, Trim(SubSeq(s, a + 1, (CHOOSE b \in Cuts(s) : b > a /\ \A e \in Cuts(s) : e > a => b <= e) - 1)) >> : a \in starts}
NoSpace(s) == SelectSeq(s, LAMBDA ch : ch # " ")
\* out is the selectors sels, in order, each after the scope and a space, joined
\* by ", "; loose: the same with every space left out
RECURSIVE IsJoin(_, _, _)
IsJoin(out, sels, loose) ==
    IF sels = {} THEN out = << >>
    ELSE LET p == CHOOSE q \in sels : \A r \in sels : q[1] <= r[1]
             one == IF loose THEN ScopeSelector \o NoSpace(p[2])
                    ELSE ScopeSelector \o << " " >> \o p[2]
             sep == IF loose THEN << "," >> ELSE << ",", " " >>
         IN IF sels = {p} THEN out = one
            ELSE /\ Len(out) >= Len(one) + Len(sep)
                 /\ SubSeq(out, 1, Len(one) + Len(sep)) = one \o sep
                 /\ IsJoin(SubSeq(out, Len(one) + Len(sep) + 1, Len(out)), sels \ {p}, loose)
\* out is the join of the selectors before the first "{" of line, then a space,
\* then the unchanged text of line from that "{" on; loose: up to spaces
IsScoped(out, line, loose) ==
    LET from == SubSeq(line, FirstBrace(line), Len(line))
        rest == IF loose THEN NoSpace(from) ELSE << " " >> \o from
    IN
    /\ Len(out) >= Len(rest)
    /\ SubSeq(out, Len(out) - Len(rest) + 1, Len(out)) = rest
    /\ IsJoin(SubSeq(out, 1, Len(out) - Len(rest)),
              Selectors(SubSeq(line, 1, FirstBrace(line) - 1)), loose)

(* C24 as stated, read up to spaces (which is weaker than its wording): a
   line that is non-empty, does not start with "@" and contains "{" becomes
   its selectors, each prefixed by the scope selector, joined, followed by
   the text from the first "{" on; a line that is empty or starts with "@"
   is output unchanged. *)
C24_ScopedRuleLine ==
    lastOp.op = "_scope_css" =>
        /\ Len(scoped_css) = Len(css_text)
        /\ \A i \in 1 .. Len(css_text) :
              LET line == css_text[i] IN
              /\ (line # << >> /\ line[1] # "@" /\ Brace(line) # {}) =>
                    IsScoped(NoSpace(scoped_css[i]), line, TRUE)
              /\ (line = << >> \/ line[1] = "@") => scoped_css[i] = line

(* C24, amended: a line whose text without its surrounding whitespace is
   non-empty and does not start with "@", and which contains "{", becomes:
   the selectors before the first "{" (the texts between the commas, each
   without its surrounding whitespace, the empty ones dropped), each
   prefixed by the scope selector and a space, joined with ", ", then one
   space, then the unchanged text from the first "{" on.  Every other line
   is output unchanged. *)
C24_ScopedRuleLineStripped ==
    lastOp.op = "_scope_css" =>
        /\ Len(scoped_css) = Len(css_text)
        /\ \A i \in 1 .. Len(css_text) :
              LET line == css_text[i] IN
              IF Trim(line) # << >> /\ Head(Trim(line)) # "@" /\ Brace(line) # {}
              THEN IsScoped(scoped_css[i], line, FALSE)
              ELSE scoped_css[i] = line

\* "x,x{" becomes "[scope] x, [scope] x {"
C24_Witness ==
    /\ lastOp.op = "_scope_css"
    /\ css_text = << << "x", ",", "x", "{" >> >>
    /\ scoped_css = << ScopeSelector \o << " ", "x", ",", " " >> \o ScopeSelector \o << " ", "x", " ", "{" >> >>

---------------------------------------------------------------------------
(* A component whose hooks set a signal it reads *)

\* a Tally has been constructed
InitInFlight ==
    /\ InitCommon
    /\ css_text = << >>
    /\ cls = [c \in Comps |-> IF c = 1 THEN "Tally" ELSE "none"]
    /\ routes = {}
    /\ not_found_factory = "None"

NextInFlight ==
    \/ \E h \in Hosts : MountFirst(1, h)
    \/ \E s \in Sigs, v \in Ints : Set(s, v)
    \/ RunTimer
    \/ DestroyHeld

SpecInFlight == InitInFlight /\ [][NextInFlight]_vars

\* the number of events e of component c among the first i entries of lg
Upto(lg, e, c, i) == Cardinality({j \in 1 .. i : lg[j].ev = e /\ lg[j].comp = c})

(* C25: at most one render per component is in flight or scheduled: at
   every point of every operation, the number of queued render callbacks of
   a component that have not run yet plus the number of its renders that are
   executing (template() has been entered and _render_and_mount has not
   returned) is at most one; this includes a set() of a signal the component
   reads made by one of its hooks while its render executes. *)
C25_OneRenderInFlight ==
    [][ \A c \in Comps : \A i \in 0 .. Len(log') :
          LET started == TimersOf(c)
                         - (IF lastOp'.op = "run" /\ lastOp'.comp = c THEN 1 ELSE 0)
              queued == started + Upto(log', "setTimeout", c, i)
              executing == Upto(log', "template", c, i) - Upto(log', "rendered", c, i)
          IN queued + executing <= 1 ]_vars

---------------------------------------------------------------------------
(* A parent whose child reads a signal *)

\* a Shell has been constructed
InitNested ==
    /\ InitCommon
    /\ css_text = << >>
    /\ cls = [c \in Comps |-> IF c = 1 THEN "Shell" ELSE "none"]
    /\ routes = {}
    /\ not_found_factory = "None"

NextNested ==
    \/ \E h \in Hosts : MountFirst(1, h)
    \/ \E v \in Ints : Set("B", v)
    \/ RunTimer
    \/ DestroyHeld

SpecNested == InitNested /\ [][NextNested]_vars

\* d was mounted into a portal by a render of c that is not c's latest render
OldChildOf(d, c) ==
    /\ cls[c] # "none" /\ cls[d] # "none"
    /\ \E g \in 1 .. gen[c] - 1, i \in 1 .. 2 : _host_js[d] = SlotName(c, g, i)

(* C26: child components of a previous render generation are torn down:
   once a parent has rendered again, every child that an earlier render of
   it mounted into a portal has no callback subscribed to a signal and no
   DOM listener, and never evaluates template() again. *)
C26_OldChildrenTornDown ==
    /\ [](\A c, d \in Comps :
             OldChildOf(d, c) => (CallbacksOf(d) = {} /\ ListenersOf(d) = {}))
    /\ [][ \A c, d \in Comps : OldChildOf(d, c) => ~Has(log', "template", d) ]_vars

---------------------------------------------------------------------------
\* in lg, every event e of component c comes before every event f of c
Before(lg, e, f, c) == \A i \in At(lg, e, c), j \in At(lg, f, c) : i < j
Attaching == {"addEventListener", "subscribe"}
Detaching == {"removeEventListener", "unsubscribe"}

(* C27: within one render, detachment precedes attachment: the listeners
   and signal subscriptions of the previous generation are all removed
   before template() is evaluated, and the listeners and subscriptions of
   the new generation are all made after it; so the render ends with
   listeners, callbacks and attached binding entries of the new generation
   only. *)
C27_DetachBeforeAttach ==
    [][ \A c \in Comps :
          (IsRenderOp(lastOp'.op) /\ lastOp'.comp = c /\ At(log', "template", c) # {}) =>
              \* everything of the previous generation is removed, before template()
              /\ ListenersOf(c) # {} => At(log', "removeEventListener", c) # {}
              /\ Times(log', "unsubscribe", c) = Cardinality(_signal_unsubs[c])
              /\ \A e \in Detaching : Before(log', e, "template", c)
              \* everything of the new generation is attached after template()
              /\ \A e \in Attaching : Before(log', "template", e, c)
              \* no entry of the old generation is left beside the new ones
              /\ \A l \in listeners' : l.comp = c => l.gen = gen'[c]
              /\ \A s \in Sigs : \A cb \in _subs'[s] : cb.comp = c => cb.gen = gen'[c]
              /\ \A i \in 1 .. Len(_value_bindings'[c]) :
                    _value_bindings'[c][i].attached_to \in {0, gen'[c]}
              /\ \A i \in 1 .. Len(_event_bindings'[c]) :
                    _event_bindings'[c][i].attached_to \in {0, gen'[c]} ]_vars

\* a re-render that replaced a bound <input>: its listener and both subscriptions
C27_Witness ==
    /\ lastOp.op = "run" /\ ~lastOp.destroyed
    /\ Times(log, "removeEventListener", lastOp.comp) = 1
    /\ Times(log, "unsubscribe", lastOp.comp) = 3
    /\ Times(log, "addEventListener", lastOp.comp) = 1
    /\ Times(log, "subscribe", lastOp.comp) = 3
    /\ Cardinality(ListenersOf(lastOp.comp)) = 1

---------------------------------------------------------------------------
\* the positions in lg of the events of the components ds
EventsOf(lg, ds) == {i \in 1 .. Len(lg) : lg[i].comp \in ds}

(* C28: child mounting order: in every render of a parent, each portal
   child is constructed and mounted only after the parent's node tree has
   been inserted under its root and all event and value listeners of that
   render have been attached, and the parent's on_mount or on_update fires
   only after every child has been constructed and mounted. *)
C28_ChildMountingOrder ==
    [][ \A c \in Comps :
          (IsRenderOp(lastOp'.op) /\ lastOp'.comp = c /\ cls[c] = "Shell") =>
              /\ Born # {}
              /\ Times(log', "to_dom", c) = 1
              /\ Times(log', "addEventListener", c)
                    = Len(EventDecls("Shell", _value)) + Len(ValueDecls("Shell", _value))
              /\ \A d \in Born :
                    /\ Times(log', "__init__", d) = 1
                    /\ _mounted'[d] /\ Times(log', "rendered", d) = 1
              /\ \A j \in EventsOf(log', Born) :
                    /\ \A i \in At(log', "to_dom", c) \cup At(log', "addEventListener", c) : i < j
                    /\ \A i \in At(log', HookOf(c), c) : j < i
              /\ Times(log', HookOf(c), c) = 1 ]_vars

\* a re-render of the Shell: its tree, two listeners, then the new Counter, then on_update
C28_Witness ==
    /\ lastOp.op = "run" /\ cls[lastOp.comp] = "Shell" /\ ~lastOp.destroyed
    /\ Times(log, "addEventListener", lastOp.comp) = 2
    /\ Times(log, "on_update", lastOp.comp) = 1
    /\ \E d \in Constructed :
          /\ cls[d] = "Counter" /\ Has(log, "on_mount", d)
          /\ _host_js[d] = SlotName(lastOp.comp, gen[lastOp.comp], 1)

---------------------------------------------------------------------------
(* A Shell in which only A changes, the signal that its Counter reads and   *)
(* the Shell itself does not.                                               *)
InitAttribution == InitNested

NextAttribution ==
    \/ \E h \in Hosts : MountFirst(1, h)
    \/ \E v \in Ints : Set("A", v)
    \/ RunTimer
    \/ DestroyHeld

SpecAttribution == InitAttribution /\ [][NextAttribution]_vars

\* the signals on which c has a re-render callback
Watches(c) == {s \in Sigs : \E cb \in _subs[s] : cb.comp = c /\ cb.kind = "_on_sig_change"}
\* the components that have been mounted into a portal of c
ChildrenOf(c) == {d \in Constructed : \E g \in 1 .. gen[c], i \in 1 .. 2 : _host_js[d] = SlotName(c, g, i)}

(* C29: collector attribution: a read is registered in the collector on
   top of the stack only, and nowhere when the stack is empty.  So after
   every render the signals a component is subscribed to for re-rendering
   are exactly those its own template() read: what the template() of a
   child read is not among the parent's, no collector is left on the stack,
   and a change of a signal that only the child reads schedules the child
   and leaves the parent's scheduling as it was. *)
C29_CollectorAttribution ==
    /\ [](\A c \in Constructed :
             /\ _current_collector_stack = << >>
             /\ (Live(c) /\ Quiescent(c)) => Watches(c) = Reads(cls[c], _value))
    /\ [][ \A c \in Comps :
             /\ (IsRenderOp(lastOp'.op) /\ lastOp'.comp = c /\ ~_destroyed[c]) =>
                   {s \in Sigs : \E cb \in _subs'[s] : cb.comp = c /\ cb.kind = "_on_sig_change"}
                       = Reads(cls[c], _value)
             /\ (lastOp'.op = "set" /\ _value' # _value /\ Live(c)
                   /\ lastOp'.sig \notin Reads(cls[c], RenderedVal(c))) =>
                   /\ _pending_render'[c] = _pending_render[c]
                   /\ \A i \in 1 .. Len(log') : log'[i].ev = "setTimeout" => log'[i].comp # c ]_vars

\* A changes: the Counter in the Shell's portal is scheduled, the Shell is not
C29_Witness ==
    /\ lastOp.op = "set" /\ lastOp.sig = "A"
    /\ Live(1) /\ cls[1] = "Shell" /\ Watches(1) = {"B"} /\ ~_pending_render[1]
    /\ \E d \in ChildrenOf(1) :
          /\ cls[d] = "Counter" /\ Watches(d) = {"A"} /\ _pending_render[d]
          /\ timers = << d >>

---------------------------------------------------------------------------
Pushes(lg) == {i \in 1 .. Len(lg) : lg[i].ev = "__enter__"}
Pops(lg) == {i \in 1 .. Len(lg) : lg[i].ev = "__exit__"}
Templates(lg) == {i \in 1 .. Len(lg) : lg[i].ev = "template"}
\* the push at i is undone by the pop at j, with no other push or pop between
Bracket(lg, i, j) ==
    /\ i < j /\ lg[j].new = lg[i].new
    /\ \A k \in Pushes(lg) \cup Pops(lg) : ~(i < k /\ k < j)

(* C30: collector stack discipline: every render pushes exactly one
   collector, evaluates template() under it and pops exactly that collector,
   also when template() raises; whenever no render is executing the global
   stack is empty. *)
C30_StackDiscipline ==
    /\ [](_current_collector_stack = << >>)
    /\ [][ /\ Cardinality(Pushes(log')) = Cardinality(Templates(log'))
           /\ Cardinality(Pops(log')) = Cardinality(Templates(log'))
           /\ \A t \in Templates(log') :
                 /\ t - 1 \in Pushes(log')
                 /\ \E j \in Pops(log') : j > t /\ Bracket(log', t - 1, j)
           /\ \A c \in Comps :
                 (IsRenderOp(lastOp'.op) /\ lastOp'.comp = c /\ gen'[c] # gen[c]) =>
                     Times(log', "template", c) = 1 ]_vars

\* a render whose template() raised: push, template(), the error, pop
C30_Witness ==
    /\ lastOp.op = "run" /\ cls[lastOp.comp] = "Fragile"
    /\ TemplateRaises("Fragile", _value)
    /\ \E i \in Pushes(log) :
          /\ i + 3 \in Pops(log) /\ Bracket(log, i, i + 3)
          /\ log[i + 1].ev = "template" /\ log[i + 1].comp = lastOp.comp
          /\ log[i + 2].ev = "console.error"
    /\ _current_collector_stack = << >>

---------------------------------------------------------------------------
\* the _update_dom callbacks of c that signal s holds
DomSubsOf(c, s) == {cb \in _subs[s] : cb.comp = c /\ cb.kind = "_update_dom"}
\* what the latest render of c subscribed for the bindings it declared
LatestDomSubs(c, s) ==
    LET vds == ValueDecls(cls[c], RenderedVal(c)) IN
    {UpdateDom(c, gen[c], vds[i].elem) : i \in {j \in 1 .. Len(vds) : vds[j].signal = s}}
BindingSubsCurrent(c) == \A s \in Sigs : DomSubsOf(c, s) = LatestDomSubs(c, s)

(* C31: value-binding subscriptions do not accumulate: for a mounted
   component, after any number of renders, every signal holds exactly one
   DOM-update subscriber of the component per element the latest render
   bound to it and none of an earlier render; once destroy() has been called
   on the component no signal holds a DOM-update subscriber of it. *)
C31_NoBindingSubscriptionAccumulation ==
    \A c \in Constructed :
        /\ Live(c) => BindingSubsCurrent(c)
        /\ _destroyed[c] => \A s \in Sigs : DomSubsOf(c, s) = {}

---------------------------------------------------------------------------
(* A Sparse, whose template() gives bindings to two elements that it omits. *)
InitSparse ==
    /\ InitCommon
    /\ css_text = << >>
    /\ cls = [c \in Comps |-> IF c = 1 THEN "Sparse" ELSE "none"]
    /\ routes = {}
    /\ not_found_factory = "None"

NextSparse ==
    \/ \E h \in Hosts : MountHeld(h)
    \/ \E s \in Sigs, v \in Flips : Set(s, v)
    \/ RunTimer
    \/ \E c \in Comps, w \in Typed : Input(c, w)

SpecSparse == InitSparse /\ [][NextSparse]_vars

\* the bindings of the sequence bs whose element is, or is not, in the tree
Skipped(bs, k) == {i \in 1 .. Len(bs) : Omitted(k, bs[i].elem)}
Kept(bs, k) == {i \in 1 .. Len(bs) : ~Omitted(k, bs[i].elem)}

(* C32: quiet skip of omitted elements: in every render, a binding that
   template() registered on an element absent from the rendered tree gets no
   listener and no signal subscription and is left unattached, nothing is
   raised or reported, and every other binding of the render gets its
   listener (and, for a value binding, its DOM-update subscription). *)
C32_QuietSkip ==
    [][ \A c \in Comps :
          (IsRenderOp(lastOp'.op) /\ lastOp'.comp = c /\ gen'[c] # gen[c]) =>
              LET k == cls'[c]
                  ebs == _event_bindings'[c]
                  vbs == _value_bindings'[c]
              IN /\ ~lastOp'.raised /\ ~Has(log', "console.error", 0)
                 /\ \A i \in Skipped(ebs, k) :
                       /\ ebs[i].attached_to = 0
                       /\ \A l \in listeners' : ~(l.comp = c /\ l.elem = ebs[i].elem)
                 /\ \A i \in Skipped(vbs, k) :
                       /\ vbs[i].attached_to = 0
                       /\ \A l \in listeners' : ~(l.comp = c /\ l.elem = vbs[i].elem)
                       /\ \A s \in Sigs : \A cb \in _subs'[s] :
                             ~(cb.comp = c /\ cb.kind = "_update_dom" /\ cb.elem = vbs[i].elem)
                 /\ \A i \in Kept(ebs, k) :
                       /\ ebs[i].attached_to = gen'[c]
                       /\ EventListener(c, ebs[i]) \in listeners'
                 /\ \A i \in Kept(vbs, k) :
                       /\ vbs[i].attached_to = gen'[c]
                       /\ ValueListener(c, vbs[i]) \in listeners'
                       /\ UpdateDom(c, gen'[c], vbs[i].elem) \in _subs'[vbs[i].signal]
                 /\ Times(log', "addEventListener", c)
                        = Cardinality(Kept(ebs, k)) + Cardinality(Kept(vbs, k)) ]_vars

\* a re-render that skipped a binding of each kind and attached the ones after them
C32_Witness ==
    /\ lastOp.op = "run" /\ cls[lastOp.comp] = "Sparse" /\ ~lastOp.raised
    /\ Skipped(_event_bindings[lastOp.comp], "Sparse") = {1}
    /\ Skipped(_value_bindings[lastOp.comp], "Sparse") = {1}
    /\ Cardinality(ListenersOf(lastOp.comp)) = 2
    /\ Times(log, "addEventListener", lastOp.comp) = 2
    /\ UpdateDom(lastOp.comp, gen[lastOp.comp], "inp") \in _subs["B"]

---------------------------------------------------------------------------
(* C33: one style element per component: a component whose styles() returns
   non-empty CSS never has more than one <style> element in the document;
   its first such render creates the element, every render writes the CSS of
   that render into it, a render of a component that has one creates no
   other, and destroy() takes it out of the document, for good. *)
C33_OneStyleElement ==
    /\ [](\A c \in Constructed :
             /\ head[c].n <= 1
             /\ head[c].n = 1 <=> _style_el[c] = "in_head"
             /\ _destroyed[c] => head[c].n = 0
             /\ ~HasStyles(cls[c]) => _style_el[c] = "None")
    /\ [][ \A c \in Comps :
             (IsRenderOp(lastOp'.op) /\ lastOp'.comp = c /\ gen'[c] # gen[c]
                 /\ HasStyles(cls[c])) =>
                   /\ head'[c].text = gen'[c]
                   /\ _style_el[c] = "None" => (_style_el'[c] = "in_head" /\ head'[c].n = 1)
                   /\ _style_el[c] # "None" => (_style_el'[c] = _style_el[c] /\ head'[c].n = head[c].n) ]_vars

---------------------------------------------------------------------------
\* the line begins an at-rule and ends with the "{" that opens its body
OpensAtRule(line) == line # << >> /\ Head(line) = "@" /\ line[Len(line)] = "{"
\* the line is a rule of the body: a selector list that is not empty, then "{"
BodyRule(line) ==
    /\ Brace(line) # {} /\ Head(Trim(line)) # "@"
    /\ Selectors(SubSeq(line, 1, FirstBrace(line) - 1)) # {}
Prefixed(line) == \E i \in 1 .. Len(line) : << line[i] >> = ScopeSelector

(* C34: at-rule bodies are not scoped: when the first line of the text
   opens an at-rule and the next line is a rule of its body, _scope_css
   returns both lines as they are, without the scope selector. *)
C34_AtRuleBodyUnscoped ==
    (lastOp.op = "_scope_css" /\ Len(css_text) = 2 /\ OpensAtRule(css_text[1])
        /\ BodyRule(css_text[2])) =>
        /\ scoped_css[1] = css_text[1]
        /\ scoped_css[2] = css_text[2]
        /\ ~Prefixed(scoped_css[2])

---------------------------------------------------------------------------
\* the re-render callbacks of c that signal s holds
RenderSubsOf(c, s) == {cb \in _subs[s] : cb.comp = c /\ cb.kind = "_on_sig_change"}

(* C35: render subscriptions track the latest render exactly: after every
   completed render of a component that is not destroyed, the signals that
   hold a re-render subscriber of it are the signals its template() has just
   read, each holds exactly one, the one this render subscribed; and a
   change of a signal that the latest template() did not read calls no
   re-render subscriber of the component and schedules nothing for it. *)
C35_SubscriptionsTrackLatestRender ==
    [][ \A c \in Comps :
          /\ (IsRenderOp(lastOp'.op) /\ lastOp'.comp = c /\ gen'[c] # gen[c]
                /\ ~_destroyed'[c] /\ ~lastOp'.raised) =>
                \A s \in Sigs :
                    {cb \in _subs'[s] : cb.comp = c /\ cb.kind = "_on_sig_change"}
                        = IF s \in Reads(cls[c], _value) THEN {OnSigChange(c, gen'[c])} ELSE {}
          /\ (IsSetOp(lastOp'.op) /\ Live(c) /\ Quiescent(c)
                /\ lastOp'.sig \notin Reads(cls[c], RenderedVal(c))) =>
                /\ \A i \in 1 .. Len(log') :
                      ~(log'[i].ev = "call" /\ log'[i].cb.comp = c
                          /\ log'[i].cb.kind = "_on_sig_change")
                /\ ~_pending_render'[c] /\ TimersOf(c)' = 0 ]_vars

\* a re-render that has dropped B: the Pair read A and B before and reads A now
C35_Witness ==
    /\ lastOp.op = "run" /\ cls[lastOp.comp] = "Pair" /\ Live(lastOp.comp)
    /\ \E i \in 1 .. Len(log) :
          /\ log[i].ev = "unsubscribe" /\ log[i].sig = "B"
          /\ log[i].cb = OnSigChange(lastOp.comp, gen[lastOp.comp] - 1)
    /\ RenderSubsOf(lastOp.comp, "A") = {OnSigChange(lastOp.comp, gen[lastOp.comp])}
    /\ RenderSubsOf(lastOp.comp, "B") = {}

---------------------------------------------------------------------------
(* C36: destroying a parent tears down its portal children: once destroy()
   has run on a parent, every child that the parent mounted into a portal
   is destroyed (its on_destroy fired in that destroy()), has no callback
   subscribed to a signal and no DOM listener, and is not rendered again. *)
C36_DestroyTearsDownChildren ==
    /\ [](\A c \in Comps : \A d \in ChildrenOf(c) :
             (cls[c] # "none" /\ _destroyed[c]) =>
                 (_destroyed[d] /\ CallbacksOf(d) = {} /\ ListenersOf(d) = {}))
    /\ [][ \A c \in Comps : \A d \in ChildrenOf(c) :
             /\ (lastOp'.op = "destroy" /\ lastOp'.comp = c /\ ~_destroyed[c]) =>
                   Has(log', "on_destroy", d)
             /\ (cls[c] # "none" /\ _destroyed[c]) => ~Has(log', "template", d) ]_vars

---------------------------------------------------------------------------
(* C37: bind_value makes the bound signal a render dependency: after every
   render, each signal that template() passed to bind_value holds the
   re-render subscriber of that render; so when the configured DOM event of
   a bound <input> changes the value of its signal, the owning component,
   if it is live with no render pending, gets exactly one render scheduled,
   and the DOM-update subscriber of the binding is called as well. *)
C37_BoundSignalIsDependency ==
    [][ \A c \in Comps :
          /\ (IsRenderOp(lastOp'.op) /\ lastOp'.comp = c /\ gen'[c] # gen[c] /\ ~lastOp'.raised) =>
                \A i \in 1 .. Len(_value_bindings'[c]) :
                    OnSigChange(c, gen'[c]) \in _subs'[_value_bindings'[c][i].signal]
          /\ (lastOp'.op = "input" /\ lastOp'.comp = c /\ _value' # _value
                /\ Live(c) /\ Quiescent(c)) =>
                /\ _pending_render'[c] /\ TimersOf(c)' = 1
                /\ Times(log', "setTimeout", c) = 1
                /\ CallsTo(log', OnSigChange(c, gen[c])) = 1
                /\ CallsTo(log', UpdateDom(c, gen[c], "inp")) = 1 ]_vars

\* the user has typed into the Pair's <input>: B changed and a render is queued
C37_Witness ==
    /\ lastOp.op = "input" /\ cls[lastOp.comp] = "Pair" /\ Live(lastOp.comp)
    /\ _value["B"] \in Typed
    /\ _pending_render[lastOp.comp] /\ timers = << lastOp.comp >>
    /\ CallsTo(log, OnSigChange(lastOp.comp, gen[lastOp.comp])) = 1
    /\ CallsTo(log, UpdateDom(lastOp.comp, gen[lastOp.comp], "inp")) = 1

---------------------------------------------------------------------------
(* C38: recovery after a template error: a render in which template()
   raises leaves the component subscribed to every signal that template()
   read before the exception; while the fallback error node is shown, a
   change of such a signal schedules a re-render; and a render in which
   template() is evaluated again and returns puts its output in the place
   of the error node. *)
C38_RecoveryAfterTemplateError ==
    [][ \A c \in Comps :
          /\ (IsRenderOp(lastOp'.op) /\ lastOp'.comp = c /\ ~_destroyed[c]
                /\ TemplateRaises(cls[c], _value)) =>
                /\ content'[c] = ErrorNode
                /\ \A s \in Shows(cls[c], _value) : OnSigChange(c, gen'[c]) \in _subs'[s]
          /\ (IsSetOp(lastOp'.op) /\ Live(c) /\ content[c] = ErrorNode
                /\ _value' # _value /\ lastOp'.sig \in Shows(cls[c], _value)) =>
                /\ _pending_render'[c] /\ TimersOf(c)' = 1
          /\ (IsRenderOp(lastOp'.op) /\ lastOp'.comp = c /\ Live(c) /\ content[c] = ErrorNode
                /\ ~TemplateRaises(cls[c], _value)) =>
                /\ Times(log', "template", c) = 1
                /\ content'[c] = TemplateOut(cls[c], _value)
                /\ content'[c] # ErrorNode ]_vars

\* the second render of a Fragile, after exactly one change of A, shows A = 0: its
\* first render saw another value of A and showed the error node
C38_Witness ==
    /\ lastOp.op = "run" /\ lastOp.batch = 1 /\ cls[lastOp.comp] = "Fragile"
    /\ Live(lastOp.comp) /\ gen[lastOp.comp] = 2
    /\ _value["A"] = PyInt(0)
    /\ content[lastOp.comp] = {<< "A", PyInt(0) >>}
    /\ _subs["A"] = {OnSigChange(lastOp.comp, 2)}

---------------------------------------------------------------------------
(* A Counter and two callbacks of other code on A: one that only looks at   *)
(* what it is called with, and one that calls A.set(0).                     *)
InitReentrant == InitSignal

\* other code subscribes the callback that sets the signal
SubscribeResetter(s) ==
    /\ s \in Sigs
    /\ Apply(AddLog([Signal_subscribe(S, s, Resetter)
                        EXCEPT !.held = @ \cup {[sig |-> s, cb |-> Resetter]}],
                    [SigEv("subscribe", 0, s) EXCEPT !.cb = Resetter]),
             [Op("subscribe", 0, s, PyInt(0), S) EXCEPT !.was = Resetter \in _subs[s]])

NextReentrant ==
    \/ \E h \in Hosts : MountFirst(1, h)
    \/ \E v \in Ints : Set("A", v)
    \/ RunTimer
    \/ Subscribe("A", "p1")
    \/ SubscribeResetter("A")
    \/ \E u \in held : Unsubscribe(u)

SpecReentrant == InitReentrant /\ [][NextReentrant]_vars

\* the calls of cb in lg
CallsAt(lg, cb) == {i \in 1 .. Len(lg) : lg[i].ev = "call" /\ lg[i].cb = cb}

(* C39: notification consistency under re-entrant set: in every set(),
   also when a subscriber of the signal calls set() on it during the
   notification, each call cb(old, new) is made while the signal's value is
   new, and the last new that a subscriber is called with is the value the
   signal has when the outermost set() returns. *)
C39_NotificationConsistency ==
    [][ IsSetOp(lastOp'.op) =>
          /\ \A i \in 1 .. Len(log') : log'[i].ev = "call" => log'[i].cur = log'[i].new
          /\ \A cb \in _subs[lastOp'.sig] :
                CallsAt(log', cb) # {} =>
                    log'[CHOOSE i \in CallsAt(log', cb) : \A j \in CallsAt(log', cb) : j <= i].new
                        = _value'[lastOp'.sig] ]_vars

---------------------------------------------------------------------------
(* A router whose not-found factory constructs a component that fails: a    *)
(* Broken, whose constructor raises, or a Gaudy, whose mount() raises after *)
(* template() has read A.  Only the router destroys components.             *)
InitRouterFail ==
    /\ InitCommon
    /\ css_text = << >>
    /\ cls = [c \in Comps |-> "none"]
    /\ routes = {RootKey}
    /\ not_found_factory \in {"Broken", "Gaudy"}

NextRouterFail ==
    \/ Start
    \/ \E h \in Hashes : Navigate(h)
    \/ RunTimer
    \/ \E v \in Flips : Set("A", v)

SpecRouterFail == InitRouterFail /\ [][NextRouterFail]_vars

\* the operation is a navigation in which the factory or mount() raised
FailedNavigation == lastOp'.op \in {"start", "hashchange"} /\ (lastOp'.raised \/ Has(log', "uncaught", 0))

(* C40: the router's current component under failures: Router._current is
   None or a component that is mounted and not destroyed; and when the
   factory or mount() raises in a navigation, the component that was
   current has been destroyed, _current is None, and a component that the
   navigation constructed has no callback subscribed to a signal and no
   root under the outlet. *)
C40_CurrentUnderFailures ==
    /\ [](_current # 0 => Live(_current))
    /\ [][ FailedNavigation =>
             /\ _current' = 0
             /\ _current # 0 => _destroyed'[_current]
             /\ \A d \in Born :
                   /\ \A s \in Sigs : \A cb \in _subs'[s] : cb.comp # d
                   /\ ~rootInHost'[d] ]_vars

====
